---- MODULE Spec2Model ----
(***************************************************************************)
(* Verification model of rclib (hypernetix/rclib).                         *)
(*                                                                         *)
(* Part 1: the concurrent load harness, execute_requests_loop in           *)
(* rclib/src/lib.rs, together with its two callers' view of it: the        *)
(* library entry point itself and cli::drive_command.                      *)
(*                                                                         *)
(* Threads are interleaved at the granularity of their atomic operations   *)
(* and channel operations: one step per AtomicBool/AtomicU32 load,         *)
(* fetch_add, store, mpsc send, recv, thread spawn and join.  The atomics   *)
(* are modelled sequentially consistent: the step of an action is the      *)
(* moment its store becomes visible.  One attempt (execute_worker_request) *)
(* is an environment step whose outcome (the HTTP exchange) is chosen      *)
(* nondeterministically; it is assumed to return.                          *)
(***************************************************************************)
EXTENDS Integers, Sequences, FiniteSets, TLC

\* ---------------------------------------------------------------- bounds
\* largest --count explored
MaxCount == 3
\* largest --concurrency explored
MaxConcurrency == 2
\* attempts that fit into the duration window
MaxAttempts == 3

VARIABLES
    registered,       \* HandlerRegistry contains the command's handler name
    cmd,              \* the resolved CommandSpec (only the fields that select the variant)
    cfg,              \* ExecutionConfig: count, duration_secs, concurrency
    spec,             \* the RequestSpec built for this invocation
    next_uuid,        \* source of fresh Uuid::new_v4 values
    mpc,              \* position of the calling (main) thread
    use_duration,     \* local of execute_requests_loop
    target_count,     \* local of execute_requests_loop: <<>> is None, <<c>> is Some(c)
    concurrency,      \* local of execute_requests_loop after normalisation
    executed_count,   \* Arc<AtomicU32>
    should_stop,      \* Arc<AtomicBool>
    senders,          \* number of live Sender handles of the channel (tx and clones)
    spawned,          \* handles.len()
    joined,           \* handles already joined
    wpc,              \* position of each worker thread
    wspec,            \* each worker's spec_clone
    request_index,    \* each worker's local request_index
    chan,             \* mpsc channel contents, FIFO
    received,         \* history: the results the aggregator has received
    started,          \* history: attempts handed to execute_worker_request, in claim order
    failed,           \* history: indices of the attempts that returned Err or a non-zero code
    success_count,
    error_count,
    timer,            \* the monitor thread: "none", "sleeping", "done"
    result,           \* what the entry point returned: "none", "Ok0", "Ok1" or "Err"
    warned,           \* the harness printed its custom-handler warning
    handler_calls,    \* number of invocations of the custom handler
    sync_log,         \* history: results of execute_request_spec run on the calling thread
    scn,              \* the ScenarioSpec handed to execute_scenario
    spc,              \* position of the scenario: "idle", "start", "schedule", "poll_head", "poll_wait", "sleep", "done"
    variables,        \* the scenario's working copy of the bindings
    elapsed,          \* start_time.elapsed() in whole seconds
    sched_log,        \* history: schedule requests with their responses
    poll_log,         \* history: poll requests with their responses
    sleeps,           \* history: number of sleeps between polls
    sres,             \* what execute_scenario returned: "none", "Ok0", "Ok1" or "Err:<why>"
    output,           \* the OutputFormat handed to execute_scenario
    stdout,           \* history: what the scenario printed with println!
    stderr,           \* history: what the scenario printed with eprintln!
    call,             \* execute_request_with_timeout: its RawRequestSpec, output format and the readable files
    rpc,              \* position of the Simple request: "idle", "start", "sent", "done"
    rres,             \* what execute_request_with_timeout returned: "none", "Ok0", "Ok1" or "Err:<why>"
    rlog,             \* history: requests sent, with their responses
    rout,             \* history: what output_response printed
    asm,              \* build_request_from_command: its command, bindings, selected set and the readable files
    bpc,              \* position of the assembler: "idle", "start", "done"
    built,            \* what build_request_from_command returned
    hcfg,             \* validate_handlers: the mapping root, the registry and the invoked command's handler name
    hpc,              \* position of validate_handlers: "idle", "start", "done"
    hres,             \* what validate_handlers returned
    tmpl,             \* substitute_template: its template and bindings
    tout,             \* what substitute_template returned
    att               \* repeated scenario attempts: the caller's spec, each worker's clone and working bindings

vars == <<registered, cmd, cfg, spec, next_uuid, mpc, use_duration,
          target_count, concurrency, executed_count, should_stop, senders,
          spawned, joined, wpc, wspec, request_index, failed, chan, received,
          started, success_count, error_count, timer, result, warned,
          handler_calls, sync_log, scn, spc, variables, elapsed, sched_log,
          poll_log, sleeps, sres, output, stdout, stderr, call, rpc, rres,
          rlog, rout, asm, bpc, built, hcfg, hpc, hres, tmpl, tout, att>>

scenVars == <<scn, spc, variables, elapsed, sched_log, poll_log, sleeps, sres,
              output, stdout, stderr>>

simpleVars == <<call, rpc, rres, rlog, rout>>

asmVars == <<asm, bpc, built>>

handlerVars == <<hcfg, hpc, hres>>

templateVars == <<tmpl, tout>>

attemptVars == <<att>>

laterVars == <<simpleVars, asmVars, handlerVars, templateVars, attemptVars>>

\* no scenario is being interpreted
NoScenario == [scenario_type |-> "", steps |-> <<>>, vars |-> <<>>]

\* no Simple request is being executed
SimpleIdle ==
    /\ call = <<>> /\ rpc = "idle" /\ rres = "none" /\ rlog = <<>> /\ rout = <<>>

\* the assembler is not running
AsmIdle == asm = <<>> /\ bpc = "idle" /\ built = <<>>

\* validate_handlers is not running
HandlersIdle == hcfg = <<>> /\ hpc = "idle" /\ hres = "none"

\* substitute_template is not running
TemplateIdle == tmpl = <<>> /\ tout = <<>>

\* no scenario attempts are being repeated
AttemptsIdle == att = <<>>

\* no scenario is being interpreted
ScenarioIdle ==
    /\ scn = NoScenario
    /\ spc = "idle"
    /\ variables = <<>>
    /\ elapsed = 0
    /\ sched_log = <<>>
    /\ poll_log = <<>>
    /\ sleeps = 0
    /\ sres = "none"
    /\ output = "Human"
    /\ stdout = <<>>
    /\ stderr = <<>>

Workers == 1..MaxConcurrency

None == <<>>
Some(x) == <<x>>

\* Result<i32> of one execution of a spec: Ok(0), Ok(1) or Err
Outcomes == {"Ok0", "Ok1", "Err"}

NoSpec == [kind |-> "none", uuid |-> 0]

\* ------------------------------------------------- build_request_from_command

\* The variant is chosen by a fixed priority: custom handler, scenario, simple.
SpecKind(c) ==
    IF c.custom_handler THEN "CustomHandler"
    ELSE IF c.scenario THEN "Scenario"
    ELSE "Simple"

\* Every branch inserts a fresh Uuid::new_v4 under "uuid".
build_request_from_command(c, fresh) == [kind |-> SpecKind(c), uuid |-> fresh]

\* ------------------------------------------------------ execute_requests_loop

UseDuration_UnlessCount(config) ==
    config.duration_secs > 0 /\ ~(config.count # None /\ config.count[1] > 1)

\* let use_duration = duration_secs > 0;
UseDuration(config) == config.duration_secs > 0

CountAboveOne_AtLeastOne(config) == config.count # None /\ config.count[1] >= 1

\* Some(c) if c > 1
CountAboveOne(config) == config.count # None /\ config.count[1] > 1

\* let target_count = if use_duration { None } else { Some(c) }
TargetCount(config) ==
    IF UseDuration(config) THEN None ELSE config.count

\* The early return of the mode selection: neither a duration nor a count > 1.
SingleShot(config) == ~UseDuration(config) /\ ~CountAboveOne(config)

NormalizeConcurrency_Identity(c) == c

\* let concurrency = if concurrency == 0 { 1 } else { concurrency };
NormalizeConcurrency(c) == IF c = 0 THEN 1 ELSE c

\* target_count.unwrap_or(0)
UnwrapOr0(opt) == IF opt = None THEN 0 ELSE opt[1]

\* executed_count.load() >= target_count.unwrap_or(0)
CountReached(loaded, target) == loaded >= UnwrapOr0(target)

ClaimedIndex_Previous(prev) == prev

\* fetch_add(1, SeqCst) + 1: the index of the claimed attempt.  The counter is
\* an AtomicU32; every run explored here stays far below 2^32 claims, so the
\* wrap-around of fetch_add is out of reach and not modelled.
ClaimedIndex(prev) == prev + 1

FetchAdd_Two(prev) == prev + 2

\* the value fetch_add leaves in the counter
FetchAdd(prev) == prev + 1

OverLimit_Never(dur, idx, target) == FALSE

\* !use_duration && request_index > target_count.unwrap_or(0)
OverLimit(dur, idx, target) == ~dur /\ idx > UnwrapOr0(target)

ShouldBreak_IgnoreFlag(dur, flag, loaded, target) ==
    IF dur THEN FALSE ELSE CountReached(loaded, target)

\* "Check stop conditions": the flag in duration mode, the counter in count mode
ShouldBreak(dur, flag, loaded, target) ==
    IF dur THEN flag ELSE CountReached(loaded, target)

SendersAfterDrop_Kept(n) == n

\* drop(tx): one Sender handle fewer
SendersAfterDrop(n) == n - 1

Disconnected_OnEmpty(queue, n) == queue = <<>>

\* rx.recv() returns Err only when the channel is empty and no Sender is left
Disconnected(queue, n) == queue = <<>> /\ n = 0

IsSuccess_AnyOk(outcome) == outcome # "Err"

\* execute_worker_request: Ok(exit_code) => exit_code == 0, Err(_) => false
IsSuccess(outcome) == outcome = "Ok0"

ExitCode_AlwaysZero(errors) == "Ok0"

\* if error_count > 0 { Ok(1) } else { Ok(0) }
ExitCode(errors) == IF errors > 0 THEN "Ok1" ELSE "Ok0"

\* execute_request_spec: what one execution of a spec may return.  A
\* CustomHandler spec always bails; the others depend on the HTTP exchange.
ExecuteRequestSpec(s) ==
    IF s.kind = "CustomHandler" THEN {"Err"} ELSE Outcomes

\* Workers that passed their stop check and have not yet claimed an index.
Claiming == {w \in Workers : wpc[w] = "claim"}

\* Attempts that still fit into the duration window (bound of the model).
WindowOpen == executed_count + Cardinality(Claiming) < MaxAttempts

\* --duration values: absent (0) and present; the monitor's sleep is a step
\* that may fall anywhere in the run, so the length itself plays no role.
Durations == {0, 1}

\* --count values: absent, 0, 1 and every N > 1 up to the bound
Counts == {None} \cup {Some(c) : c \in 0..MaxCount}

\* With a duration the four shapes of --count: absent, 0, 1 and one N > 1.
DurationCounts == {None, Some(0), Some(1), Some(2)}

Configs ==
    {c \in [count : Counts, duration_secs : Durations,
            concurrency : 0..MaxConcurrency] :
        c.duration_secs > 0 => c.count \in DurationCounts}

Commands == [custom_handler : BOOLEAN, scenario : BOOLEAN]

Init ==
    /\ cmd \in Commands
    /\ registered \in (IF cmd.custom_handler THEN BOOLEAN ELSE {FALSE})
    /\ cfg \in Configs
    /\ spec = NoSpec
    /\ next_uuid = 1
    /\ mpc = "build"
    /\ use_duration = FALSE
    /\ target_count = None
    /\ concurrency = 0
    /\ executed_count = 0
    /\ should_stop = FALSE
    /\ senders = 0
    /\ spawned = 0
    /\ joined = 0
    /\ wpc = [w \in Workers |-> "unspawned"]
    /\ wspec = [w \in Workers |-> NoSpec]
    /\ request_index = [w \in Workers |-> 0]
    /\ failed = {}
    /\ chan = <<>>
    /\ received = {}
    /\ started = <<>>
    /\ success_count = 0
    /\ error_count = 0
    /\ timer = "none"
    /\ result = "none"
    /\ warned = FALSE
    /\ handler_calls = 0
    /\ sync_log = <<>>
    /\ ScenarioIdle
    /\ SimpleIdle /\ AsmIdle /\ HandlersIdle /\ TemplateIdle /\ AttemptsIdle

harnessVars == <<use_duration, target_count, concurrency, executed_count,
                 should_stop, senders, spawned, joined, wpc, wspec,
                 request_index, failed, chan, received, started,
                 success_count, error_count, timer>>

\* The caller builds the RequestSpec: either drive_command, which goes on to
\* match on it, or a library user who passes it to execute_requests_loop.
BuildRequest ==
    /\ mpc = "build"
    /\ spec' = build_request_from_command(cmd, next_uuid)
    /\ next_uuid' = next_uuid + 1
    /\ mpc' \in {"drive", "loop"}
    /\ UNCHANGED <<registered, cmd, cfg, result, warned, handler_calls>>
    /\ UNCHANGED harnessVars
    /\ UNCHANGED sync_log
    /\ UNCHANGED scenVars
    /\ UNCHANGED laterVars

\* drive_command, the match on the built spec.
DriveCommand ==
    /\ mpc = "drive"
    /\ IF spec.kind = "CustomHandler"
       THEN IF ~registered
            THEN \* handlers.get(..).ok_or_else(..)?
                 /\ result' = "Err"
                 /\ mpc' = "done"
                 /\ UNCHANGED handler_calls
            ELSE \* h(vars, &base_url, json_output)?; Ok(0)
                 /\ handler_calls' = handler_calls + 1
                 /\ \E ok \in BOOLEAN : result' = IF ok THEN "Ok0" ELSE "Err"
                 /\ mpc' = "done"
       ELSE /\ mpc' = "loop"
            /\ UNCHANGED <<result, handler_calls>>
    /\ UNCHANGED <<registered, cmd, cfg, spec, next_uuid, warned>>
    /\ UNCHANGED harnessVars
    /\ UNCHANGED sync_log
    /\ UNCHANGED scenVars
    /\ UNCHANGED laterVars

\* execute_requests_loop up to the creation of the shared state.
ModeSelect ==
    /\ mpc = "loop"
    /\ use_duration' = UseDuration(cfg)
    /\ target_count' = IF SingleShot(cfg) THEN None ELSE TargetCount(cfg)
    /\ IF SingleShot(cfg)
       THEN /\ mpc' = "single"
            /\ UNCHANGED <<concurrency, warned>>
       ELSE /\ concurrency' = NormalizeConcurrency(cfg.concurrency)
            /\ IF spec.kind = "CustomHandler"
               THEN warned' = TRUE /\ mpc' = "single"
               ELSE UNCHANGED warned /\ mpc' = "spawn"
    \* let (tx, rx) = mpsc::channel() on the way to the thread pool
    /\ senders' = IF ~SingleShot(cfg) /\ spec.kind # "CustomHandler" THEN 1 ELSE senders
    /\ UNCHANGED <<registered, cmd, cfg, spec, next_uuid, result,
                   handler_calls, executed_count, should_stop, spawned,
                   joined, wpc, wspec, request_index, failed, chan, received,
                   started, success_count, error_count, timer>>
    /\ UNCHANGED sync_log
    /\ UNCHANGED scenVars
    /\ UNCHANGED laterVars

\* return execute_request_spec(spec, ...): one synchronous execution.
ExecuteOnce ==
    /\ mpc = "single"
    /\ \E o \in ExecuteRequestSpec(spec) :
          /\ sync_log' = Append(sync_log, o)
          /\ result' = o
    /\ mpc' = "done"
    /\ UNCHANGED <<registered, cmd, cfg, spec, next_uuid, warned,
                   handler_calls>>
    /\ UNCHANGED harnessVars
    /\ UNCHANGED scenVars
    /\ UNCHANGED laterVars

\* One iteration of the thread-pool loop: clone spec and tx, spawn the worker.
SpawnWorker ==
    /\ mpc = "spawn"
    /\ spawned < concurrency
    /\ LET w == spawned + 1 IN
        /\ wspec' = [wspec EXCEPT ![w] = spec]
        /\ wpc' = [wpc EXCEPT ![w] = "check"]
    /\ senders' = senders + 1
    /\ spawned' = spawned + 1
    /\ UNCHANGED <<registered, cmd, cfg, spec, next_uuid, mpc,
                   use_duration, target_count, concurrency, executed_count,
                   should_stop, joined, request_index, failed, chan, received,
                   started, success_count, error_count, timer, result, warned,
                   handler_calls>>
    /\ UNCHANGED sync_log
    /\ UNCHANGED scenVars
    /\ UNCHANGED laterVars

\* drop(tx)
DropTx ==
    /\ mpc = "spawn"
    /\ spawned = concurrency
    /\ senders' = SendersAfterDrop(senders)
    /\ mpc' = "monitor"
    /\ UNCHANGED <<registered, cmd, cfg, spec, next_uuid, use_duration,
                   target_count, concurrency, executed_count, should_stop,
                   spawned, joined, wpc, wspec, request_index, failed, chan,
                   received, started, success_count, error_count, timer, result,
                   warned, handler_calls>>
    /\ UNCHANGED sync_log
    /\ UNCHANGED scenVars
    /\ UNCHANGED laterVars

\* if use_duration { thread::spawn(monitor) }
SpawnMonitor ==
    /\ mpc = "monitor"
    /\ timer' = IF use_duration THEN "sleeping" ELSE timer
    /\ mpc' = "drain"
    /\ UNCHANGED <<registered, cmd, cfg, spec, next_uuid, use_duration,
                   target_count, concurrency, executed_count, should_stop,
                   senders, spawned, joined, wpc, wspec, request_index, failed,
                   chan, received, started, success_count, error_count, result,
                   warned, handler_calls>>
    /\ UNCHANGED sync_log
    /\ UNCHANGED scenVars
    /\ UNCHANGED laterVars

\* The monitor thread: sleep(duration_limit); should_stop.store(true).
TimerFire ==
    /\ timer = "sleeping"
    /\ should_stop' = TRUE
    /\ timer' = "done"
    /\ UNCHANGED <<registered, cmd, cfg, spec, next_uuid, mpc,
                   use_duration, target_count, concurrency, executed_count,
                   senders, spawned, joined, wpc, wspec, request_index, failed,
                   chan, received, started, success_count, error_count, result,
                   warned, handler_calls>>
    /\ UNCHANGED sync_log
    /\ UNCHANGED scenVars
    /\ UNCHANGED laterVars

\* ------------------------------------------------------------- worker thread

callerVars == <<registered, cmd, cfg, spec, next_uuid, mpc, result,
                warned, handler_calls>>

\* "Check stop conditions": the load of should_stop (duration mode) or of
\* executed_count (count mode).  break ends the thread and drops tx_clone.
WorkerCheck(w) ==
    /\ wpc[w] = "check"
    /\ IF ShouldBreak(use_duration, should_stop, executed_count, target_count)
       THEN /\ wpc' = [wpc EXCEPT ![w] = "done"]
            /\ senders' = senders - 1
       ELSE /\ use_duration => WindowOpen
            /\ wpc' = [wpc EXCEPT ![w] = "claim"]
            /\ UNCHANGED senders
    /\ UNCHANGED callerVars
    /\ UNCHANGED <<use_duration, target_count, concurrency, executed_count,
                   should_stop, spawned, joined, wspec, request_index, failed,
                   chan, received, started, success_count, error_count, timer>>
    /\ UNCHANGED sync_log
    /\ UNCHANGED scenVars
    /\ UNCHANGED laterVars

\* "Atomically get next request number" and the over-limit check that follows;
\* an attempt that passes is handed to execute_worker_request.
WorkerClaim(w) ==
    /\ wpc[w] = "claim"
    /\ LET idx == ClaimedIndex(executed_count) IN
        /\ executed_count' = FetchAdd(executed_count)
        /\ request_index' = [request_index EXCEPT ![w] = idx]
        /\ IF OverLimit(use_duration, idx, target_count)
           THEN /\ wpc' = [wpc EXCEPT ![w] = "done"]
                /\ senders' = senders - 1
                /\ UNCHANGED started
           ELSE /\ wpc' = [wpc EXCEPT ![w] = "exec"]
                /\ started' = Append(started,
                       [idx |-> idx, uuid |-> wspec[w].uuid,
                        after_stop |-> should_stop])
                /\ UNCHANGED senders
    /\ UNCHANGED callerVars
    /\ UNCHANGED <<use_duration, target_count, concurrency, should_stop, spawned,
                   joined, wspec, failed, chan, received, success_count,
                   error_count, timer>>
    /\ UNCHANGED sync_log
    /\ UNCHANGED scenVars
    /\ UNCHANGED laterVars

\* The ExecutionResult as it travels through the channel; idx tags it with the
\* attempt it belongs to (the _request_index argument of the attempt).
Message(o, idx) == [is_success |-> IsSuccess(o), idx |-> idx]

\* execute_worker_request returns and the result is sent: tx_clone.send(result).
\* The send fails only when the receiver is gone, i.e. after
\* execute_requests_loop has returned.
WorkerExecute(w) ==
    /\ wpc[w] = "exec"
    /\ \E o \in ExecuteRequestSpec(wspec[w]) :
        /\ IF mpc # "done"
           THEN /\ chan' = Append(chan, Message(o, request_index[w]))
                /\ wpc' = [wpc EXCEPT ![w] = "check"]
                /\ UNCHANGED senders
           ELSE /\ wpc' = [wpc EXCEPT ![w] = "done"]
                /\ senders' = senders - 1
                /\ UNCHANGED chan
        /\ failed' = IF o = "Ok0" THEN failed ELSE failed \cup {request_index[w]}
    \* request_index ends with the iteration
    /\ request_index' = [request_index EXCEPT ![w] = 0]
    /\ UNCHANGED callerVars
    /\ UNCHANGED <<use_duration, target_count, concurrency, executed_count,
                   should_stop, spawned, joined, wspec, received, started,
                   success_count, error_count, timer>>
    /\ UNCHANGED sync_log
    /\ UNCHANGED scenVars
    /\ UNCHANGED laterVars

\* ---------------------------------------------------------------- aggregator

\* while let Ok(result) = rx.recv(): one received result.
Recv ==
    /\ mpc = "drain"
    /\ chan # <<>>
    /\ LET r == Head(chan) IN
        /\ received' = received \cup {r}
        /\ IF r.is_success
           THEN success_count' = success_count + 1 /\ UNCHANGED error_count
           ELSE error_count' = error_count + 1 /\ UNCHANGED success_count
    /\ chan' = Tail(chan)
    /\ UNCHANGED callerVars
    /\ UNCHANGED <<use_duration, target_count, concurrency, executed_count,
                   should_stop, senders, spawned, joined, wpc, wspec,
                   request_index, failed, started, timer>>
    /\ UNCHANGED sync_log
    /\ UNCHANGED scenVars
    /\ UNCHANGED laterVars

\* rx.recv() returns Err: the channel is empty and every Sender is dropped.
RecvClosed ==
    /\ mpc = "drain"
    /\ Disconnected(chan, senders)
    /\ mpc' = "join"
    /\ UNCHANGED <<registered, cmd, cfg, spec, next_uuid, result, warned,
                   handler_calls>>
    /\ UNCHANGED harnessVars
    /\ UNCHANGED sync_log
    /\ UNCHANGED scenVars
    /\ UNCHANGED laterVars

\* handle.join() for the next handle.
Join ==
    /\ mpc = "join"
    /\ joined < spawned
    /\ wpc[joined + 1] = "done"
    /\ joined' = joined + 1
    /\ UNCHANGED callerVars
    /\ UNCHANGED <<use_duration, target_count, concurrency, executed_count,
                   should_stop, senders, spawned, wpc, wspec, request_index,
                   failed, chan, received, started, success_count, error_count,
                   timer>>
    /\ UNCHANGED sync_log
    /\ UNCHANGED scenVars
    /\ UNCHANGED laterVars

\* let final_executed_count = executed_count.load(Ordering::Relaxed), read
\* after every worker is joined: the "Executed requests" of the summary and
\* the divisor of its percentages and average
final_executed_count == executed_count

\* The summary and the exit code.
Finish ==
    /\ mpc = "join"
    /\ joined = spawned
    /\ result' = ExitCode(error_count)
    /\ mpc' = "done"
    /\ UNCHANGED <<registered, cmd, cfg, spec, next_uuid, warned,
                   handler_calls>>
    /\ UNCHANGED harnessVars
    /\ UNCHANGED sync_log
    /\ UNCHANGED scenVars
    /\ UNCHANGED laterVars

Next ==
    \/ BuildRequest
    \/ DriveCommand
    \/ ModeSelect
    \/ ExecuteOnce
    \/ SpawnWorker
    \/ DropTx
    \/ SpawnMonitor
    \/ TimerFire
    \/ \E w \in Workers : WorkerCheck(w)
    \/ \E w \in Workers : WorkerClaim(w)
    \/ \E w \in Workers : WorkerExecute(w)
    \/ Recv
    \/ RecvClosed
    \/ Join
    \/ Finish

Spec == Init /\ [][Next]_vars

\* ===========================================================================
\* Part 2: the scenario state machine, execute_scenario and
\* execute_job_with_polling_scenario.  Strings that are substituted or
\* compared are sequences of one-character strings.  The HTTP exchanges are
\* environment choices made when a request returns; time is a counter of
\* seconds since start_time that may advance between any two steps.
\* ===========================================================================

\* most polls explored in one scenario run
MaxPolls == 2
\* largest timeout_seconds explored
MaxTimeout == 1

Letters ==
    {"a", "b", "c", "d", "e", "f", "g", "h", "i", "j", "k", "l", "m", "n", "o",
     "p", "q", "r", "s", "t", "u", "v", "w", "x", "y", "z",
     "A", "B", "C", "D", "E", "F", "G", "H", "I", "J", "K", "L", "M", "N", "O",
     "P", "Q", "R", "S", "T", "U", "V", "W", "X", "Y", "Z"}

Digits == {"0", "1", "2", "3", "4", "5", "6", "7", "8", "9"}

\* [a-zA-Z_]
IsIdentStart(c) == c \in Letters \cup {"_"}

\* [a-zA-Z0-9_]
IsIdentChar(c) == c \in Letters \cup Digits \cup {"_"}

\* the first position at or after j that holds no identifier character
RECURSIVE IdentEnd(_, _)
IdentEnd(t, j) ==
    IF j <= Len(t) /\ IsIdentChar(t[j]) THEN IdentEnd(t, j + 1) ELSE j

\* \{([a-zA-Z_][a-zA-Z0-9_]*)\} matched at position i: the position of its
\* closing brace, or 0 when there is no match at i
PlaceholderEnd(t, i) ==
    IF t[i] = "{" /\ i + 1 <= Len(t) /\ IsIdentStart(t[i + 1])
    THEN LET k == IdentEnd(t, i + 2) IN
         IF k <= Len(t) /\ t[k] = "}" THEN k ELSE 0
    ELSE 0

LookupOrEmpty_KeepUnbound(bindings, key) ==
    IF key \in DOMAIN bindings THEN bindings[key] ELSE <<"{">> \o key \o <<"}">>

\* vars.get(key).cloned().unwrap_or_default()
LookupOrEmpty(bindings, key) ==
    IF key \in DOMAIN bindings THEN bindings[key] ELSE <<>>

RECURSIVE ReplaceFrom(_, _, _)
ReplaceFrom(t, i, bindings) ==
    IF i > Len(t) THEN <<>>
    ELSE LET e == PlaceholderEnd(t, i) IN
         IF e > 0
         THEN LookupOrEmpty(bindings, SubSeq(t, i + 1, e - 1))
                  \o ReplaceFrom(t, e + 1, bindings)
         ELSE <<t[i]>> \o ReplaceFrom(t, i + 1, bindings)

substitute_template_Verbatim(t, bindings) == t

\* PLACEHOLDER_RE.replace_all(template, ...): leftmost, non-overlapping,
\* one pass
substitute_template(t, bindings) == ReplaceFrom(t, 1, bindings)

\* ------------------------------------------------------------- JSON values

JStr(chars) == [t |-> "str", s |-> chars]
JNum(n) == [t |-> "num", n |-> n]
JNull == [t |-> "null"]

\* a response body: text that is no JSON, or a JSON object
NotJson == [json |-> FALSE]
JObj(fields) == [json |-> TRUE, obj |-> fields]
EmptyFields == [f \in {} |-> JNull]

DigitChar(d) ==
    CASE d = 0 -> "0" [] d = 1 -> "1" [] d = 2 -> "2" [] d = 3 -> "3"
      [] d = 4 -> "4" [] d = 5 -> "5" [] d = 6 -> "6" [] d = 7 -> "7"
      [] d = 8 -> "8" [] d = 9 -> "9"

\* n.to_string() of a non-negative integer
RECURSIVE Decimal(_)
Decimal(n) ==
    IF n < 10 THEN <<DigitChar(n)>> ELSE Decimal(n \div 10) \o <<DigitChar(n % 10)>>

\* the match of extract_jsonpath_value on the first selected value
JsonToString(v) ==
    CASE v.t = "str" -> v.s
      [] v.t = "num" -> Decimal(v.n)
      [] OTHER -> <<"n", "u", "l", "l">>

\* the JSONPath expressions used, with the member each one selects; any other
\* expression does not compile (select returns Err)
FieldOfPath ==
    [p \in {"$.id", "$.missing", "$.status", "$.error"} |->
        CASE p = "$.id" -> "id" [] p = "$.missing" -> "missing"
          [] p = "$.error" -> "error" [] OTHER -> "status"]

\* extract_jsonpath_value: None is <<>>, Some(s) is <<s>>
extract_jsonpath_value(body, path) ==
    IF path \notin DOMAIN FieldOfPath THEN None
    ELSE IF FieldOfPath[path] \in DOMAIN body.obj
         THEN Some(JsonToString(body.obj[FieldOfPath[path]]))
         ELSE None

ExtractErr == [ok |-> FALSE]
ExtractOk(b) == [ok |-> TRUE, vars |-> b]

\* the bindings after every rule has inserted its value
WithExtracted(body, extractions, bindings) ==
    [k \in DOMAIN bindings \cup DOMAIN extractions |->
        IF k \in DOMAIN extractions
        THEN extract_jsonpath_value(body, extractions[k])[1]
        ELSE bindings[k]]

\* the rules whose path selects something in the body
Resolved(body, extractions) ==
    {v \in DOMAIN extractions : extract_jsonpath_value(body, extractions[v]) # None}

extract_response_variables_SkipMissing(body, extractions, bindings) ==
    IF DOMAIN extractions = {} THEN ExtractOk(bindings)
    ELSE IF ~body.json THEN ExtractErr
    ELSE ExtractOk([k \in DOMAIN bindings \cup Resolved(body, extractions) |->
                       IF k \in Resolved(body, extractions)
                       THEN extract_jsonpath_value(body, extractions[k])[1]
                       ELSE bindings[k]])

extract_response_variables_LenientParse(body, extractions, bindings) ==
    IF DOMAIN extractions = {} \/ ~body.json THEN ExtractOk(bindings)
    ELSE IF Resolved(body, extractions) # DOMAIN extractions THEN ExtractErr
    ELSE ExtractOk(WithExtracted(body, extractions, bindings))

\* extract_response_variables.  No rule: Ok without looking at the body.  The
\* rules are visited in the HashMap's order; whichever comes first, one
\* unresolved rule fails the call.
extract_response_variables(body, extractions, bindings) ==
    IF DOMAIN extractions = {} THEN ExtractOk(bindings)
    ELSE IF ~body.json THEN ExtractErr
    ELSE IF \E v \in DOMAIN extractions :
                extract_jsonpath_value(body, extractions[v]) = None
    THEN ExtractErr
    ELSE ExtractOk(WithExtracted(body, extractions, bindings))

\* ------------------------------------------------------- scenario inputs

S_id == <<"i", "d">>
S_uuid == <<"u", "u", "i", "d">>
S_42 == <<"4", "2">>
S_running == <<"r", "u", "n">>
S_done == <<"d", "o", "n", "e">>
S_failed == <<"f", "a", "i", "l">>
S_boom == <<"b", "o", "o", "m">>
S_oops == <<"o", "o", "p", "s">>

\* endpoint templates of the two steps: "/j" and "/j/{id}"
ScheduleEndpoint == <<"/", "j">>
PollEndpoint == <<"/", "j", "/", "{", "i", "d", "}">>

\* CompletionCondition, without error_field and error_message
Conditions ==
    [status : {S_done, S_failed}, action : {"success", "error", "retry"},
     error_field : {None}, error_message : {None}]

\* CompletionCondition, every shape of error_field and error_message
OutcomeConditions ==
    [status : {S_done, S_failed}, action : {"success", "error", "retry"},
     error_field : {None, Some("$.error"), Some("$.missing")},
     error_message : {None, Some(S_boom)}]

ConditionLists ==
    {<<>>} \cup {<<c>> : c \in Conditions}
           \cup {<<c, d>> : c \in Conditions, d \in Conditions}

\* interval_seconds values
Intervals == {0, 1}

\* PollingConfig
Policies ==
    [interval_seconds : Intervals, timeout_seconds : 0..MaxTimeout,
     completion_conditions : ConditionLists]

DefaultPolicy ==
    [interval_seconds |-> 1, timeout_seconds |-> MaxTimeout,
     completion_conditions |->
        <<[status |-> S_done, action |-> "success", error_field |-> None,
           error_message |-> None]>>]

NoRules == [v \in {} |-> "$.id"]

\* extract_response maps of the schedule step
Extractions ==
    {NoRules,
     [v \in {S_id} |-> "$.id"],
     [v \in {S_id} |-> "$.missing"],
     [v \in {S_id, S_uuid} |-> IF v = S_id THEN "$.id" ELSE "$.missing"]}

Step(name, endpoint, extract, polling) ==
    [name |-> name, endpoint |-> endpoint, extract_response |-> extract,
     polling |-> polling]

\* ScenarioSpec.vars as built by build_request_from_command
InitialVars == [k \in {S_uuid} |-> <<"u">>]

Scenario(type, steps) == [scenario_type |-> type, steps |-> steps, vars |-> InitialVars]

\* well-shaped scenarios: every polling policy and every extraction map
ValidScenarios ==
    {Scenario("job_with_polling",
              <<Step("schedule_job", ScheduleEndpoint, e, None),
                Step("poll_job", PollEndpoint, NoRules, Some(p))>>) :
        e \in Extractions, p \in Policies}

\* well-shaped scenarios with at most one condition, of every shape
OutcomeScenarios ==
    {Scenario("job_with_polling",
              <<Step("schedule_job", ScheduleEndpoint, [v \in {S_id} |-> "$.id"], None),
                Step("poll_job", PollEndpoint, NoRules,
                     Some([interval_seconds |-> 1, timeout_seconds |-> MaxTimeout,
                           completion_conditions |-> cs]))>>) :
        cs \in {<<>>} \cup {<<c>> : c \in OutcomeConditions}}

\* scenarios that break the required shape in one or several ways
OddScenarios ==
    {Scenario(ty, SubSeq(<<Step(n1, ScheduleEndpoint, e, None),
                           Step(n2, PollEndpoint, NoRules, pol),
                           Step("extra", PollEndpoint, NoRules, None)>>, 1, n)) :
        ty \in {"job_with_polling", "sequence"},
        n1 \in {"schedule_job", "poll_job"},
        n2 \in {"poll_job", "schedule_job"},
        e \in {NoRules, [v \in {S_id} |-> "$.id"]},
        pol \in {None, Some(DefaultPolicy)},
        n \in 0..3}

\* what a request can come back with: no response at all, a response with a
\* non-2xx status (and some body), or a 2xx response with a body
Transport == [kind |-> "transport"]
Non2xx(body) == [kind |-> "non2xx", body |-> body]
Ok2xx(body) == [kind |-> "ok", body |-> body]

ScheduleResponses ==
    {Transport, Non2xx(JObj([f \in {"id"} |-> JStr(S_42)])),
     Ok2xx(NotJson), Ok2xx(JObj(EmptyFields)),
     Ok2xx(JObj([f \in {"id"} |-> JStr(S_42)])),
     Ok2xx(JObj([f \in {"id"} |-> JNum(7)]))}

PollResponses ==
    {Transport, Non2xx(JObj([f \in {"status"} |-> JStr(S_done)])),
     Ok2xx(NotJson), Ok2xx(JObj(EmptyFields)),
     Ok2xx(JObj([f \in {"status"} |-> JNum(1)])),
     Ok2xx(JObj([f \in {"status"} |-> JStr(S_running)])),
     Ok2xx(JObj([f \in {"status"} |-> JStr(S_done)])),
     Ok2xx(JObj([f \in {"status", "error"} |->
                    IF f = "status" THEN JStr(S_done) ELSE JStr(S_oops)]))}

\* OutputFormat
OutputFormats == {"Json", "Human", "Quiet"}

\* one println! or eprintln!: a response body as received, or a text
PrintedBody(body) == [body |-> body]
PrintedText(t) == [text |-> t]


\* ------------------------------------------------- scenario interpreter

\* steps.len() != 2 bails
StepCountOk_AtLeast(n) == n >= 2
StepCountOk(n) == n = 2

\* execute_single_request: a transport failure is an Err from send(), a
\* status outside 2xx bails
RequestOk_AnyResponse(resp) == resp.kind # "transport"
RequestOk(resp) == resp.kind = "ok"

\* start_time.elapsed() > timeout_duration
TimedOut_AtDeadline(e, timeout_seconds) == e >= timeout_seconds
TimedOut_Never(e, timeout_seconds) == FALSE
TimedOut(e, timeout_seconds) == e > timeout_seconds

StatusIs_MissingMatches(body, status) ==
    \/ "status" \notin DOMAIN body.obj
    \/ (body.obj["status"].t = "str" /\ body.obj["status"].s = status)

\* response_json.get("status") and then as_str() == condition.status
StatusIs(body, status) ==
    /\ "status" \in DOMAIN body.obj
    /\ body.obj["status"].t = "str"
    /\ body.obj["status"].s = status

\* the for loop over completion_conditions from position i: the index of the
\* condition at which it returns, 0 when it runs to the end
RECURSIVE MatchFrom(_, _, _)
MatchFrom(conds, body, i) ==
    IF i > Len(conds) THEN 0
    ELSE IF StatusIs(body, conds[i].status) THEN i
    ELSE MatchFrom(conds, body, i + 1)

RECURSIVE LastMatchFrom(_, _, _)
LastMatchFrom(conds, body, i) ==
    IF i < 1 THEN 0
    ELSE IF StatusIs(body, conds[i].status) THEN i
    ELSE LastMatchFrom(conds, body, i - 1)

FirstMatch_Last(conds, body) == LastMatchFrom(conds, body, Len(conds))
FirstMatch(conds, body) == MatchFrom(conds, body, 1)

\* match condition.action.as_str()
ActionOutcome_Swapped(action) ==
    CASE action = "success" -> "Ok1"
      [] action = "error" -> "Ok0"
      [] OTHER -> "Err:action"
ActionOutcome_Lenient(action) ==
    CASE action = "success" -> "Ok0"
      [] action = "error" -> "Ok1"
      [] OTHER -> "Ok0"
ActionOutcome(action) ==
    CASE action = "success" -> "Ok0"
      [] action = "error" -> "Ok1"
      [] OTHER -> "Err:action"

\* the two println! after step 1: one line in Json mode, two otherwise
ScheduledLines(fmt, bindings) ==
    IF fmt = "Json"
    THEN <<PrintedText(<<"Step 1 (schedule_job) completed">>)>>
    ELSE <<PrintedText(<<"Job scheduled with ID: ">> \o
                       (IF S_id \in DOMAIN bindings THEN bindings[S_id]
                        ELSE <<"unknown">>)),
           PrintedText(<<"Waiting for job to complete...">>)>>

SuccessLines_TextOnly(fmt, body) ==
    <<PrintedText(<<"Operation completed successfully">>)>>

\* the println! of the success arm
SuccessLines(fmt, body) ==
    IF fmt = "Json" THEN <<PrintedBody(body)>>
    ELSE <<PrintedText(<<"Operation completed successfully">>)>>

\* error_msg of the error arm
ErrorMessage(cond, body) ==
    IF cond.error_field # None
    THEN LET v == extract_jsonpath_value(body, cond.error_field[1]) IN
         IF v = None THEN <<"Unknown error">> ELSE v[1]
    ELSE IF cond.error_message # None THEN cond.error_message[1]
    ELSE <<"Operation failed">>

\* the println! of the error arm
ErrorStdout(fmt, body) == IF fmt = "Json" THEN <<PrintedBody(body)>> ELSE <<>>

\* the eprintln! of the error arm
ErrorStderr(fmt, cond, body) ==
    IF fmt = "Json" THEN <<>>
    ELSE <<PrintedText(<<"Error: ">> \o ErrorMessage(cond, body))>>

AfterSleep_Restart == "schedule"

\* the end of the loop body leads to the top of the loop
AfterSleep == "poll_head"

\* build_raw_spec_from_step, the part that varies: the endpoint
build_raw_spec_from_step(step, bindings) == substitute_template(step.endpoint, bindings)

Exchange(endpoint, resp) == [endpoint |-> endpoint, resp |-> resp]

\* requests handed to execute_single_request so far
PollsIssued == Len(poll_log) + (IF spc = "poll_wait" THEN 1 ELSE 0)
SchedulesIssued == Len(sched_log) + (IF spc = "schedule" THEN 1 ELSE 0)

\* the load harness at rest, with a command, its registration, and the
\* calling thread at position pc
HarnessAt(c, r, pc) ==
    /\ cmd = c
    /\ registered = r
    /\ cfg = [count |-> None, duration_secs |-> 0, concurrency |-> 1]
    /\ spec = NoSpec
    /\ next_uuid = 1
    /\ mpc = pc
    /\ use_duration = FALSE
    /\ target_count = None
    /\ concurrency = 0
    /\ executed_count = 0
    /\ should_stop = FALSE
    /\ senders = 0
    /\ spawned = 0
    /\ joined = 0
    /\ wpc = [w \in Workers |-> "unspawned"]
    /\ wspec = [w \in Workers |-> NoSpec]
    /\ request_index = [w \in Workers |-> 0]
    /\ failed = {}
    /\ chan = <<>>
    /\ received = {}
    /\ started = <<>>
    /\ success_count = 0
    /\ error_count = 0
    /\ timer = "none"
    /\ result = "none"
    /\ warned = FALSE
    /\ handler_calls = 0
    /\ sync_log = <<>>

\* execute_scenario is entered with one of the scenarios and output formats
ScenarioEntry(scenarios, formats) ==
    /\ cmd = [custom_handler |-> FALSE, scenario |-> TRUE]
    /\ registered = FALSE
    /\ cfg = [count |-> None, duration_secs |-> 0, concurrency |-> 1]
    /\ spec = [kind |-> "Scenario", uuid |-> 1]
    /\ next_uuid = 2
    /\ mpc = "single"
    /\ use_duration = FALSE
    /\ target_count = None
    /\ concurrency = 0
    /\ executed_count = 0
    /\ should_stop = FALSE
    /\ senders = 0
    /\ spawned = 0
    /\ joined = 0
    /\ wpc = [w \in Workers |-> "unspawned"]
    /\ wspec = [w \in Workers |-> NoSpec]
    /\ request_index = [w \in Workers |-> 0]
    /\ failed = {}
    /\ chan = <<>>
    /\ received = {}
    /\ started = <<>>
    /\ success_count = 0
    /\ error_count = 0
    /\ timer = "none"
    /\ result = "none"
    /\ warned = FALSE
    /\ handler_calls = 0
    /\ sync_log = <<>>
    /\ scn \in scenarios
    /\ spc = "start"
    /\ variables = <<>>
    /\ elapsed = 0
    /\ sched_log = <<>>
    /\ poll_log = <<>>
    /\ sleeps = 0
    /\ sres = "none"
    /\ output \in formats
    /\ stdout = <<>>
    /\ stderr = <<>>
    /\ SimpleIdle /\ AsmIdle /\ HandlersIdle /\ TemplateIdle /\ AttemptsIdle

InitScenario == ScenarioEntry(ValidScenarios \cup OddScenarios, {"Human"})

InitOutcome == ScenarioEntry(OutcomeScenarios, OutputFormats)

notScenVars == <<registered, cmd, cfg, spec, next_uuid, mpc, use_duration,
                 target_count, concurrency, executed_count, should_stop,
                 senders, spawned, joined, wpc, wspec, request_index, chan,
                 received, started, failed, success_count, error_count, timer,
                 result, warned, handler_calls, sync_log>>

Return(r) == spc' = "done" /\ sres' = r

\* execute_scenario up to the point where the schedule request is sent
ExecuteScenario ==
    /\ spc = "start"
    /\ variables' = scn.vars
    /\ IF scn.scenario_type # "job_with_polling" THEN Return("Err:type")
       ELSE IF ~StepCountOk(Len(scn.steps)) THEN Return("Err:steps")
       ELSE IF scn.steps[1].name # "schedule_job" THEN Return("Err:first")
       ELSE spc' = "schedule" /\ UNCHANGED sres
    /\ UNCHANGED <<scn, elapsed, sched_log, poll_log, sleeps, output, stdout, stderr>>
    /\ UNCHANGED notScenVars
    /\ UNCHANGED laterVars

\* the schedule request returns; extraction; the checks on the second step;
\* start_time is taken
ScheduleResponse ==
    /\ spc = "schedule"
    /\ \E resp \in ScheduleResponses :
        LET step == scn.steps[1]
            ext  == extract_response_variables(resp.body, step.extract_response, variables)
        IN
        /\ sched_log' = Append(sched_log,
                               Exchange(build_raw_spec_from_step(step, variables), resp))
        /\ IF ~RequestOk(resp)
           THEN Return("Err:request") /\ UNCHANGED <<variables, stdout>>
           ELSE IF ~ext.ok
           THEN Return("Err:extract") /\ UNCHANGED <<variables, stdout>>
           ELSE /\ variables' = ext.vars
                /\ stdout' = stdout \o ScheduledLines(output, ext.vars)
                /\ IF scn.steps[2].name # "poll_job" THEN Return("Err:second")
                   ELSE IF scn.steps[2].polling = None THEN Return("Err:polling")
                   ELSE spc' = "poll_head" /\ UNCHANGED sres
    /\ elapsed' = 0
    /\ UNCHANGED <<scn, poll_log, sleeps, output, stderr>>
    /\ UNCHANGED notScenVars
    /\ UNCHANGED laterVars

polling_config == scn.steps[2].polling[1]

\* top of the loop: the timeout check, then the poll request is sent
PollHead ==
    /\ spc = "poll_head"
    /\ IF TimedOut(elapsed, polling_config.timeout_seconds)
       THEN Return("Err:timeout")
       ELSE /\ Len(poll_log) < MaxPolls
            /\ spc' = "poll_wait"
            /\ UNCHANGED sres
    /\ UNCHANGED <<scn, variables, elapsed, sched_log, poll_log, sleeps, output,
                   stdout, stderr>>
    /\ UNCHANGED notScenVars
    /\ UNCHANGED laterVars

\* the poll request returns; JSON parse; completion conditions
PollResponse ==
    /\ spc = "poll_wait"
    /\ \E resp \in PollResponses :
        /\ poll_log' = Append(poll_log,
                              Exchange(build_raw_spec_from_step(scn.steps[2], variables), resp))
        /\ IF ~RequestOk(resp)
           THEN Return("Err:request") /\ UNCHANGED <<stdout, stderr>>
           ELSE IF ~resp.body.json
           THEN Return("Err:parse") /\ UNCHANGED <<stdout, stderr>>
           ELSE LET conds == polling_config.completion_conditions
                    m     == FirstMatch(conds, resp.body)
                IN IF m # 0
                   THEN /\ Return(ActionOutcome(conds[m].action))
                        /\ stdout' = stdout \o
                              (CASE conds[m].action = "success" ->
                                        SuccessLines(output, resp.body)
                                 [] conds[m].action = "error" ->
                                        ErrorStdout(output, resp.body)
                                 [] OTHER -> <<>>)
                        /\ stderr' = stderr \o
                              (IF conds[m].action = "error"
                               THEN ErrorStderr(output, conds[m], resp.body)
                               ELSE <<>>)
                   \* no body of the model has a numeric progress field
                   ELSE spc' = "sleep" /\ UNCHANGED <<sres, stdout, stderr>>
    /\ UNCHANGED <<scn, variables, elapsed, sched_log, sleeps, output>>
    /\ UNCHANGED notScenVars
    /\ UNCHANGED laterVars

\* std::thread::sleep(interval_seconds); the clock is followed only until it
\* has passed the timeout
Sleep ==
    /\ spc = "sleep"
    /\ LET t == polling_config.timeout_seconds
           e == elapsed + polling_config.interval_seconds
       IN elapsed' = IF e > t THEN t + 1 ELSE e
    /\ sleeps' = sleeps + 1
    /\ spc' = AfterSleep
    /\ UNCHANGED <<scn, variables, sched_log, poll_log, sres, output, stdout, stderr>>
    /\ UNCHANGED notScenVars
    /\ UNCHANGED laterVars

\* a second passes while the scenario is in its polling loop
Tick ==
    /\ spc \in {"poll_head", "poll_wait", "sleep"}
    /\ elapsed <= polling_config.timeout_seconds
    /\ elapsed' = elapsed + 1
    /\ UNCHANGED <<scn, spc, variables, sched_log, poll_log, sleeps, sres, output,
                   stdout, stderr>>
    /\ UNCHANGED notScenVars
    /\ UNCHANGED laterVars

ScenarioStep ==
    \/ ExecuteScenario
    \/ ScheduleResponse
    \/ PollHead
    \/ PollResponse
    \/ Sleep

NextScenario ==
    \/ ExecuteScenario
    \/ ScheduleResponse
    \/ PollHead
    \/ PollResponse
    \/ Sleep
    \/ Tick

SpecScenario == InitScenario /\ [][NextScenario]_vars

\* the same interpreter on the scenarios that vary the condition's shape and
\* the output format
SpecOutcome == InitOutcome /\ [][NextScenario]_vars

\* The interpreter takes its next step, a request that was sent returns, and
\* time passes.
FairScenario ==
    /\ SpecScenario
    /\ WF_vars(ScenarioStep)
    /\ WF_vars(Tick)

\* ===========================================================================
\* Part 3: a Simple request, execute_request_with_timeout and output_response.
\* The verbose tracing to stderr and the two timeouts of the client builder
\* are not followed.
\* ===========================================================================

str_http == <<"h", "t", "t", "p", ":", "/", "/">>
str_https == <<"h", "t", "t", "p", "s", ":", "/", "/">>

\* str::starts_with
StartsWith(t, prefix) ==
    Len(t) >= Len(prefix) /\ SubSeq(t, 1, Len(prefix)) = prefix

\* str::ends_with(char)
EndsWithChar(t, c) == t # <<>> /\ t[Len(t)] = c

\* str::trim_end_matches(char): every trailing occurrence is removed
RECURSIVE TrimEndMatches(_, _)
TrimEndMatches(t, c) ==
    IF EndsWithChar(t, c) THEN TrimEndMatches(SubSeq(t, 1, Len(t) - 1), c) ELSE t

UrlErr == [ok |-> FALSE]
UrlOk(u) == [ok |-> TRUE, url |-> u]

build_url(base_url, endpoint) ==
    IF StartsWith(endpoint, str_http) \/ StartsWith(endpoint, str_https)
    THEN UrlOk(endpoint)
    ELSE IF base_url = None THEN UrlErr
    ELSE LET base == base_url[1]
             has_slash == EndsWithChar(base, "/") \/ StartsWith(endpoint, <<"/">>)
         IN UrlOk(IF has_slash THEN TrimEndMatches(base, "/") \o endpoint
                  ELSE base \o <<"/">> \o endpoint)

LowerLetters ==
    <<"a", "b", "c", "d", "e", "f", "g", "h", "i", "j", "k", "l", "m", "n", "o",
      "p", "q", "r", "s", "t", "u", "v", "w", "x", "y", "z">>
UpperLetters ==
    <<"A", "B", "C", "D", "E", "F", "G", "H", "I", "J", "K", "L", "M", "N", "O",
      "P", "Q", "R", "S", "T", "U", "V", "W", "X", "Y", "Z">>

UpperChar(c) ==
    IF \E i \in 1..Len(LowerLetters) : LowerLetters[i] = c
    THEN UpperLetters[CHOOSE i \in 1..Len(LowerLetters) : LowerLetters[i] = c]
    ELSE c

\* str::to_uppercase
ToUppercase(t) == [i \in 1..Len(t) |-> UpperChar(t[i])]

GET == <<"G", "E", "T">>
POST == <<"P", "O", "S", "T">>
PUT == <<"P", "U", "T">>
PATCH == <<"P", "A", "T", "C", "H">>
DELETE == <<"D", "E", "L", "E", "T", "E">>
HEAD == <<"H", "E", "A", "D">>
OPTIONS == <<"O", "P", "T", "I", "O", "N", "S">>

SupportedMethods == {GET, POST, PUT, PATCH, DELETE, HEAD, OPTIONS}

parse_method_CaseSensitive(method) == method \in SupportedMethods

\* parse_method: TRUE when it returns Ok
parse_method(method) == ToUppercase(method) \in SupportedMethods

\* position of the first ':' of a header line, 0 when there is none
RECURSIVE ColonFrom(_, _)
ColonFrom(h, i) ==
    IF i > Len(h) THEN 0 ELSE IF h[i] = ":" THEN i ELSE ColonFrom(h, i + 1)

\* str::trim, for the blank
RECURSIVE TrimStart(_)
TrimStart(t) == IF t # <<>> /\ t[1] = " " THEN TrimStart(Tail(t)) ELSE t

Trim(t) == TrimStart(TrimEndMatches(t, " "))

\* HeaderName::from_bytes accepts a non-empty token; of the characters of the
\* model, letters, digits, '-' and '_' are token characters
ValidHeaderName(name) ==
    name # <<>> /\ \A i \in 1..Len(name) : name[i] \in Letters \cup Digits \cup {"-", "_"}

\* one iteration of parse_headers: TRUE when the line is accepted.  The
\* values of the model have no control character, HeaderValue::from_str
\* accepts them.
HeaderAccepted(h) ==
    LET c == ColonFrom(h, 1) IN
    c # 0 /\ ValidHeaderName(Trim(SubSeq(h, 1, c - 1)))

parse_headers_Lenient(raw_headers) == TRUE

\* parse_headers: TRUE when it returns Ok
parse_headers(raw_headers) ==
    \A i \in 1..Len(raw_headers) : HeaderAccepted(raw_headers[i])

\* the multipart form: std::fs::read of every file field; TRUE when all are read
FilesRead(rspec, readable) ==
    (rspec.multipart /\ DOMAIN rspec.file_fields # {}) =>
        \A f \in DOMAIN rspec.file_fields : rspec.file_fields[f] \in readable

\* what execute_request_with_timeout does before req.send(): "" when the
\* request is ready, else the step that failed
PrepareError(client_ok, rspec, readable) ==
    IF ~client_ok THEN "Err:client"
    ELSE IF ~build_url(rspec.base_url, rspec.endpoint).ok THEN "Err:url"
    ELSE IF ~parse_method(rspec.method) THEN "Err:method"
    ELSE IF ~parse_headers(rspec.headers) THEN "Err:headers"
    ELSE IF ~FilesRead(rspec, readable) THEN "Err:file"
    ELSE ""

\* StatusCode::is_success
IsSuccessStatus(status) == status >= 200 /\ status < 300

ExitValue_ErrOnStatus(status) == IF IsSuccessStatus(status) THEN "Ok0" ELSE "Err:status"

\* the value of output_response
ExitValue(status) == IF IsSuccessStatus(status) THEN "Ok0" ELSE "Ok1"

\* a body that is no JSON, with its text
RawText(t) == [json |-> FALSE, text |-> t]

\* resp.text().unwrap_or_default()
TextOf(resp) == IF resp.readable THEN resp.body ELSE RawText(<<>>)

Printed(how, status, body) == [how |-> how, status |-> status, body |-> body]

\* what output_response prints
OutputLines(fmt, status, body) ==
    CASE fmt = "Json" ->
            IF body.json THEN <<Printed("pretty", status, body)>>
            ELSE <<Printed("wrapped", status, body)>>
      [] fmt = "Human" ->
            IF body.json THEN <<Printed("human", status, body)>>
            ELSE <<Printed("raw", status, body)>>
      [] OTHER -> <<>>

\* ------------------------------------------------- Simple request inputs

BaseUrls == {None, Some(<<"b">>), Some(<<"b", "/">>)}

Endpoints ==
    {<<"p">>, <<"/", "p">>, <<>>, str_http \o <<"x">>, str_https \o <<"x">>}

MethodNames == {GET, <<"g", "e", "t">>, <<"P", "o", "s", "t">>, <<"F", "E", "T", "C", "H">>, <<>>}

HeaderLists ==
    {<<>>,
     << <<"A", ":", " ", "b">> >>,
     << <<"A", "b">> >>,
     << <<"A", ":", "b">>, <<":", "b">> >>}

NoFiles == [f \in {} |-> <<>>]
OneFile == [f \in {"file"} |-> "path"]

\* multipart flag, file fields, and the paths that can be read
Uploads ==
    {[multipart |-> FALSE, file_fields |-> NoFiles, readable |-> {}],
     [multipart |-> TRUE, file_fields |-> NoFiles, readable |-> {}],
     [multipart |-> TRUE, file_fields |-> OneFile, readable |-> {"path"}],
     [multipart |-> TRUE, file_fields |-> OneFile, readable |-> {}],
     [multipart |-> FALSE, file_fields |-> OneFile, readable |-> {}]}

\* RawRequestSpec
RawRequestSpecs ==
    {[base_url |-> b, endpoint |-> e, method |-> m, headers |-> h,
      multipart |-> u.multipart, file_fields |-> u.file_fields] :
        b \in BaseUrls, e \in Endpoints, m \in MethodNames, h \in HeaderLists,
        u \in Uploads}

HttpResponse(status, readable, body) ==
    [kind |-> "http", status |-> status, readable |-> readable, body |-> body]

\* what req.send() can give
SimpleResponses ==
    {Transport}
    \cup {HttpResponse(st, TRUE, b) :
            st \in {200, 204, 301, 404, 500},
            b \in {RawText(S_oops), JObj([f \in {"id"} |-> JNum(7)])}}
    \cup {HttpResponse(st, FALSE, RawText(S_oops)) : st \in {200, 500}}

InitSimple ==
    /\ HarnessAt([custom_handler |-> FALSE, scenario |-> FALSE], FALSE, "single")
    /\ ScenarioIdle /\ AsmIdle /\ HandlersIdle /\ TemplateIdle /\ AttemptsIdle
    /\ \E rs \in RawRequestSpecs, u \in Uploads, fmt \in OutputFormats :
          /\ rs.multipart = u.multipart /\ rs.file_fields = u.file_fields
          /\ call = [spec |-> rs, output |-> fmt, readable |-> u.readable]
    /\ rpc = "start"
    /\ rres = "none"
    /\ rlog = <<>>
    /\ rout = <<>>

notSimpleVars == <<notScenVars, scenVars, asmVars, handlerVars, templateVars, attemptVars>>

\* execute_request_with_timeout up to req.send()
Prepare ==
    /\ rpc = "start"
    /\ \E client_ok \in BOOLEAN :
          LET e == PrepareError(client_ok, call.spec, call.readable) IN
          IF e # "" THEN rpc' = "done" /\ rres' = e
          ELSE rpc' = "sent" /\ UNCHANGED rres
    /\ UNCHANGED <<call, rlog, rout>>
    /\ UNCHANGED notSimpleVars

\* req.send() returns; output_response
Respond ==
    /\ rpc = "sent"
    /\ \E resp \in SimpleResponses :
          /\ rlog' = Append(rlog, [method |-> ToUppercase(call.spec.method),
                                   url |-> build_url(call.spec.base_url, call.spec.endpoint).url,
                                   resp |-> resp])
          /\ IF resp.kind = "transport"
             THEN rres' = "Err:send" /\ UNCHANGED rout
             ELSE /\ rout' = rout \o OutputLines(call.output, resp.status, TextOf(resp))
                  /\ rres' = ExitValue(resp.status)
    /\ rpc' = "done"
    /\ UNCHANGED call
    /\ UNCHANGED notSimpleVars

NextSimple ==
    \/ Prepare
    \/ Respond

SpecSimple == InitSimple /\ [][NextSimple]_vars

\* ===========================================================================
\* Part 4: validate_handlers over a mapping root, next to drive_command's
\* lookup of the invoked command's handler (BuildRequest, DriveCommand).
\* ===========================================================================

HandlerNames == {"h1", "h2"}

\* CommandNode::Command, with the custom_handler of its CommandSpec
CommandLeaf(h) == [kind |-> "command", custom_handler |-> h]

\* CommandNode::Group / CommandGroup
Group(subs) == [kind |-> "group", subcommands |-> subs]

Leaves == {CommandLeaf(h) : h \in {None} \cup {Some(n) : n \in HandlerNames}}

\* the sequences of at most two members of a set
UpToTwo(S) == {<<>>} \cup {<<a>> : a \in S} \cup {<<a, b>> : a \in S, b \in S}

\* groups of commands
LeafGroups == {Group(ss) : ss \in UpToTwo(Leaves)}

\* groups of commands and of groups of commands
NestedGroups == {Group(ss) : ss \in UpToTwo(Leaves \cup LeafGroups)}

\* MappingRoot::Flat and MappingRoot::Hier
MappingRoots ==
    {[kind |-> "flat", commands |-> cs] : cs \in UpToTwo(Leaves)}
    \cup {[kind |-> "hier", commands |-> <<g>>] : g \in NestedGroups}
    \cup {[kind |-> "hier", commands |-> gs] : gs \in UpToTwo(LeafGroups)}

\* HandlerRegistry: the names registered
Registries == SUBSET HandlerNames

\* if let Some(h) = custom_handler { if !contains_key(h) { push } }
MissingOf(c, reg) ==
    IF c.custom_handler # None /\ c.custom_handler[1] \notin reg
    THEN <<c.custom_handler[1]>> ELSE <<>>

Descend_Never(node) == FALSE

\* CommandNode::Group(g) => walk(g, reg, acc)
Descend(node) == node.kind = "group"

\* walk: what it pushes to acc for the subcommands from position i on
RECURSIVE walk(_, _, _)
walk(group, reg, i) ==
    IF i > Len(group.subcommands) THEN <<>>
    ELSE LET node == group.subcommands[i] IN
         (IF Descend(node) THEN walk(node, reg, 1)
          ELSE IF node.kind = "command" THEN MissingOf(node, reg)
          ELSE <<>>)
         \o walk(group, reg, i + 1)

\* the loops over flat.commands and over hier.commands
RECURSIVE MissingFrom(_, _, _)
MissingFrom(root, reg, i) ==
    IF i > Len(root.commands) THEN <<>>
    ELSE (IF root.kind = "flat" THEN MissingOf(root.commands[i], reg)
          ELSE walk(root.commands[i], reg, 1))
         \o MissingFrom(root, reg, i + 1)

\* validate_handlers: Ok(()) or the error with the missing names
validate_handlers(root, reg) ==
    LET missing == MissingFrom(root, reg, 1) IN
    [ok |-> missing = <<>>, missing |-> missing]

InitHandlers ==
    /\ \E root \in MappingRoots, reg \in Registries,
          h \in {None} \cup {Some(n) : n \in HandlerNames} :
          /\ hcfg = [root |-> root, registry |-> reg, handler_name |-> h]
          /\ HarnessAt([custom_handler |-> h # None, scenario |-> FALSE],
                       h # None /\ h[1] \in reg, "build")
    /\ hpc = "start"
    /\ hres = "none"
    /\ ScenarioIdle /\ SimpleIdle /\ AsmIdle /\ TemplateIdle /\ AttemptsIdle

ValidateHandlers ==
    /\ hpc = "start"
    /\ hres' = validate_handlers(hcfg.root, hcfg.registry)
    /\ hpc' = "done"
    /\ UNCHANGED hcfg
    /\ UNCHANGED <<notScenVars, scenVars, simpleVars, asmVars, templateVars, attemptVars>>

NextHandlers ==
    \/ ValidateHandlers
    \/ BuildRequest
    \/ DriveCommand

SpecHandlers == InitHandlers /\ [][NextHandlers]_vars

\* ===========================================================================
\* Part 5: the assembler, build_request_from_command with
\* apply_file_overrides, on whole command definitions.  Variable and argument
\* names are sequences of characters, as the keys of the bindings are.
\* ===========================================================================

\* ArgSpec, the fields build_request_from_command reads
Arg(name, arg_type, file_upload, fov, endpoint, method, headers, body) ==
    [name |-> name, arg_type |-> arg_type, file_upload |-> file_upload,
     file_overrides_value_of |-> fov, endpoint |-> endpoint, method |-> method,
     headers |-> headers, body |-> body]

N_a == <<"a">>
N_b == <<"b">>
N_c == <<"c">>
N_f == <<"f">>
S_path == <<"p", "a", "t", "h">>

\* overrides endpoint and method
ArgA == Arg(Some(N_a), None, FALSE, None, Some(<<"/", "a">>), Some(POST), None, None)

\* overrides endpoint and header X
ArgB ==
    Arg(Some(N_b), None, FALSE, None, Some(<<"/", "b", "/", "{", "i", "d", "}">>),
        None, Some([k \in {"X"} |-> <<"b">>]), None)

\* overrides method, header X and body
ArgC ==
    Arg(Some(N_c), None, FALSE, None, None, Some(PUT),
        Some([k \in {"X"} |-> <<"{", "i", "d", "}">>]), Some(<<"c">>))

\* a file argument whose content overrides the variable id
ArgF == Arg(Some(N_f), Some("file"), FALSE, Some(S_id), None, None, None, None)

\* a file-upload argument
ArgU == Arg(Some(N_f), None, TRUE, None, None, None, None, None)

\* an argument without a name that carries an endpoint
ArgN == Arg(None, None, FALSE, None, Some(<<"/", "n">>), None, None, None)

ArgLists == UpToTwo({ArgA, ArgB, ArgC, ArgF, ArgU, ArgN})

\* CommandSpec, the fields build_request_from_command reads
CommandSpecs ==
    {[custom_handler |-> h, scenario |-> sc, method |-> me[1], endpoint |-> me[2],
      body |-> Some(<<"{", "i", "d", "}">>),
      headers |-> [k \in {"X", "Y"} |-> IF k = "X" THEN <<"{", "i", "d", "}">> ELSE <<"y">>],
      multipart |-> mp, args |-> args] :
        h \in {None, Some("h1")},
        sc \in {None, Some("job_with_polling")},
        me \in {<<Some(GET), Some(<<"/", "u", "/", "{", "i", "d", "}">>)>>,
                <<None, Some(<<"/", "u">>)>>,
                <<Some(GET), None>>},
        mp \in BOOLEAN,
        args \in ArgLists}

\* the caller's bindings
CallerVars ==
    {[k \in {S_id} |-> <<"1">>],
     [k \in {S_id, N_f} |-> IF k = S_id THEN <<"1">> ELSE S_path],
     [k \in {S_id, N_f} |-> IF k = S_id THEN <<"1">> ELSE <<>>],
     [k \in {S_id, N_f, S_uuid} |->
         IF k = S_id THEN <<"1">> ELSE IF k = N_f THEN S_path ELSE <<"x">>]}

\* the files that can be read, with their content
FileSystems == {[q \in {} |-> <<>>], [q \in {S_path} |-> <<"9">>]}

\* Uuid::new_v4().to_string()
FreshUuid == <<"U">>

\* vars.clone() and the insert of "uuid"
VarsWithBuiltins(binds, fresh) ==
    [k \in DOMAIN binds \cup {S_uuid} |-> IF k = S_uuid THEN fresh ELSE binds[k]]

\* dominated_var of apply_file_overrides
dominated_var(a, binds) ==
    /\ a.arg_type = Some("file")
    /\ a.file_overrides_value_of # None
    /\ a.name # None
    /\ a.name[1] \in DOMAIN binds
    /\ binds[a.name[1]] # <<>>

\* the loop of apply_file_overrides from argument i on: a file that cannot be
\* read leaves the bindings as they are
RECURSIVE apply_file_overrides(_, _, _, _)
apply_file_overrides(args, binds, files, i) ==
    IF i > Len(args) THEN binds
    ELSE IF dominated_var(args[i], binds) /\ binds[args[i].name[1]] \in DOMAIN files
    THEN LET target  == args[i].file_overrides_value_of[1]
             content == files[binds[args[i].name[1]]]
         IN apply_file_overrides(args,
                [k \in DOMAIN binds \cup {target} |->
                    IF k = target THEN content ELSE binds[k]],
                files, i + 1)
    ELSE apply_file_overrides(args, binds, files, i + 1)

Variant_ScenarioFirst(c) ==
    IF c.scenario # None THEN "Scenario"
    ELSE IF c.custom_handler # None THEN "CustomHandler"
    ELSE "Simple"

\* the order of the three ifs of build_request_from_command
Variant(c) ==
    IF c.custom_handler # None THEN "CustomHandler"
    ELSE IF c.scenario # None THEN "Scenario"
    ELSE "Simple"

Overrides_AnyNamed(a, selected) == a.name # None

\* if let Some(arg_name) = a.name { if selected_args.contains(arg_name) {
Overrides(a, selected) == a.name # None /\ a.name[1] \in selected

\* the four if-lets of one argument applied to the values so far
OverrideWith(a, acc, v) ==
    [endpoint |-> IF a.endpoint # None THEN substitute_template(a.endpoint[1], v)
                  ELSE acc.endpoint,
     method   |-> IF a.method # None THEN a.method[1] ELSE acc.method,
     headers  |-> IF a.headers # None
                  THEN [k \in DOMAIN acc.headers \cup DOMAIN a.headers[1] |->
                           IF k \in DOMAIN a.headers[1]
                           THEN substitute_template(a.headers[1][k], v)
                           ELSE acc.headers[k]]
                  ELSE acc.headers,
     body     |-> IF a.body # None THEN Some(substitute_template(a.body[1], v))
                  ELSE acc.body]

\* for a in &cmd.args, from argument i on
RECURSIVE ApplyOverrides(_, _, _, _, _)
ApplyOverrides(args, selected, v, acc, i) ==
    IF i > Len(args) THEN acc
    ELSE ApplyOverrides(args, selected, v,
             IF Overrides(args[i], selected) THEN OverrideWith(args[i], acc, v)
             ELSE acc,
             i + 1)

\* file_fields of a multipart command
FileFields(c, v) ==
    LET ups == IF c.multipart
               THEN {c.args[i].name[1] : i \in
                        {j \in 1..Len(c.args) :
                            /\ c.args[j].file_upload
                            /\ c.args[j].name # None
                            /\ c.args[j].name[1] \in DOMAIN v}}
               ELSE {}
    IN [n \in ups |-> v[n]]

\* the Simple descriptor before headers_map is turned into a Vec; the two
\* expect() panic on a command without method or endpoint
SimpleParts(base_url, c, v, selected) ==
    IF c.method = None \/ c.endpoint = None THEN [kind |-> "panic"]
    ELSE LET start == [endpoint |-> substitute_template(c.endpoint[1], v),
                       method   |-> c.method[1],
                       headers  |-> [k \in DOMAIN c.headers |->
                                        substitute_template(c.headers[k], v)],
                       body     |-> IF c.body = None THEN None
                                    ELSE Some(substitute_template(c.body[1], v))]
             end == ApplyOverrides(c.args, selected, v, start, 1)
         IN [kind |-> "Simple", base_url |-> base_url, method |-> end.method,
             endpoint |-> end.endpoint, headers_map |-> end.headers,
             body |-> end.body, multipart |-> c.multipart,
             file_fields |-> FileFields(c, v)]

\* format!("{}: {}", k, v)
HeaderLine(k, v) == <<k, ":", " ">> \o v

\* headers_map.into_iter().collect(): the lines in some order, which the
\* HashMap does not fix
HeaderVecs(headers_map) ==
    LET lines == {HeaderLine(k, headers_map[k]) : k \in DOMAIN headers_map} IN
    {q \in UNION {[1..n -> lines] : n \in {Cardinality(lines)}} :
        {q[i] : i \in 1..Len(q)} = lines}

\* build_request_from_command on a whole command: every value it can return
BuildResults(base_url, c, binds, selected, files, fresh) ==
    LET v == apply_file_overrides(c.args, VarsWithBuiltins(binds, fresh), files, 1) IN
    CASE Variant(c) = "CustomHandler" ->
            {[kind |-> "CustomHandler", handler_name |-> c.custom_handler[1], vars |-> v]}
      [] Variant(c) = "Scenario" ->
            {[kind |-> "Scenario", base_url |-> base_url, scenario |-> c.scenario[1],
              vars |-> v]}
      [] OTHER ->
            LET parts == SimpleParts(base_url, c, v, selected) IN
            IF parts.kind = "panic" THEN {parts}
            ELSE {[kind |-> "Simple", base_url |-> parts.base_url,
                   method |-> parts.method, endpoint |-> parts.endpoint,
                   headers |-> hs, body |-> parts.body,
                   multipart |-> parts.multipart,
                   file_fields |-> parts.file_fields] :
                    hs \in HeaderVecs(parts.headers_map)}

InitAsm ==
    /\ HarnessAt([custom_handler |-> FALSE, scenario |-> FALSE], FALSE, "build")
    /\ ScenarioIdle /\ SimpleIdle /\ HandlersIdle /\ TemplateIdle /\ AttemptsIdle
    /\ \E c \in CommandSpecs, vs \in CallerVars, sel \in SUBSET {N_a, N_b, N_c},
          fs \in FileSystems :
          asm = [base_url |-> Some(<<"b">>), cmd |-> c, vars |-> vs,
                 selected |-> sel, files |-> fs, fresh |-> FreshUuid]
    /\ bpc = "start"
    /\ built = <<>>

\* one call of build_request_from_command
Assemble ==
    /\ bpc = "start"
    /\ built' \in BuildResults(asm.base_url, asm.cmd, asm.vars, asm.selected,
                               asm.files, asm.fresh)
    /\ bpc' = "done"
    /\ UNCHANGED asm
    /\ UNCHANGED <<notScenVars, scenVars, simpleVars, handlerVars, templateVars, attemptVars>>

NextAsm == Assemble

SpecAsm == InitAsm /\ [][NextAsm]_vars

\* ===========================================================================
\* Part 6: substitute_template on arbitrary templates.
\* ===========================================================================

\* longest template explored
MaxTemplateLen == 6

TemplateChars == {"{", "}", "a", "1"}

Templates == UNION {[1..n -> TemplateChars] : n \in 0..MaxTemplateLen}

\* the variable maps the templates are filled from: a unbound, a bound to
\* plain text, to a placeholder, to the empty string, and a next to a1
TemplateBindings ==
    {[k \in {} |-> <<>>],
     [k \in {<<"a">>} |-> <<"x">>],
     [k \in {<<"a">>} |-> <<"{", "a", "}">>],
     [k \in {<<"a">>} |-> <<>>],
     [k \in {<<"a">>, <<"a", "1">>} |-> IF k = <<"a">> THEN <<"x">> ELSE <<"y">>]}

InitTemplate ==
    /\ HarnessAt([custom_handler |-> FALSE, scenario |-> FALSE], FALSE, "build")
    /\ ScenarioIdle /\ SimpleIdle /\ AsmIdle /\ HandlersIdle /\ AttemptsIdle
    /\ \E t \in Templates, b \in TemplateBindings :
          tmpl = [template |-> t, bindings |-> b]
    /\ tout = <<>>

\* one call of substitute_template; tout holds the returned string
Substitute ==
    /\ tout = <<>>
    /\ tout' = <<substitute_template(tmpl.template, tmpl.bindings)>>
    /\ UNCHANGED tmpl
    /\ UNCHANGED <<notScenVars, scenVars, simpleVars, asmVars, handlerVars, attemptVars>>

NextTemplate == Substitute

SpecTemplate == InitTemplate /\ [][NextTemplate]_vars

\* ===========================================================================
\* Part 7: a scenario executed repeatedly by the workers of a load run:
\* execute_requests_loop hands each worker a clone of the RequestSpec, and
\* each attempt is one execute_scenario on it.  Only what touches the
\* bindings is followed: the clone, the extraction after the schedule request
\* and the poll request built from the bindings.
\* ===========================================================================

\* most scenario attempts explored in one load run
MaxScenarioRuns == 3

AttemptWorkers == {1, 2}

\* the ScenarioSpec of the run: the job id is extracted from the schedule
\* response; the caller may have bound id itself
AttemptSpecs ==
    {[scenario_type |-> "job_with_polling",
      steps |-> <<Step("schedule_job", ScheduleEndpoint, [v \in {S_id} |-> "$.id"], None),
                  Step("poll_job", PollEndpoint, NoRules, Some(DefaultPolicy))>>,
      vars |-> vs] :
        vs \in {InitialVars,
                [k \in {S_uuid, S_id} |-> IF k = S_uuid THEN <<"u">> ELSE <<"0">>]}}

SpecVarsAfter_Aliased(spec_vars, working) == working

\* let mut variables = scenario_spec.vars.clone(): the working bindings are a
\* copy, so what is written to them leaves scenario_spec.vars as it was
SpecVarsAfter(spec_vars, working) == spec_vars

InitAttempts ==
    /\ HarnessAt([custom_handler |-> FALSE, scenario |-> TRUE], FALSE, "build")
    /\ ScenarioIdle /\ SimpleIdle /\ AsmIdle /\ HandlersIdle /\ TemplateIdle
    /\ \E s \in AttemptSpecs :
          att = [spec      |-> s,
                 given     |-> s,
                 wspec     |-> [w \in AttemptWorkers |-> s],
                 pc        |-> [w \in AttemptWorkers |-> "loop"],
                 variables |-> [w \in AttemptWorkers |-> <<>>],
                 cur       |-> [w \in AttemptWorkers |-> 0],
                 log       |-> <<>>]

notAttemptVars ==
    <<notScenVars, scenVars, simpleVars, asmVars, handlerVars, templateVars>>

\* a worker's next iteration: execute_scenario clones the bindings of the
\* worker's spec and sends the schedule request
AttemptStart(w) ==
    /\ att.pc[w] = "loop"
    /\ Len(att.log) < MaxScenarioRuns
    /\ att' = [att EXCEPT
                 !.pc[w] = "schedule",
                 !.variables[w] = att.wspec[w].vars,
                 !.cur[w] = Len(att.log) + 1,
                 !.log = Append(att.log,
                            [worker |-> w, initial |-> att.wspec[w].vars,
                             reply |-> None, polled |-> None])]
    /\ UNCHANGED notAttemptVars

\* the schedule response: a failed request or extraction ends the attempt,
\* otherwise the extracted values are inserted into the working bindings
AttemptSchedule(w) ==
    /\ att.pc[w] = "schedule"
    /\ \E resp \in ScheduleResponses :
          LET step == att.wspec[w].steps[1]
              ext  == extract_response_variables(resp.body, step.extract_response,
                                                 att.variables[w])
          IN
          IF ~RequestOk(resp) \/ ~ext.ok
          THEN att' = [att EXCEPT !.pc[w] = "loop", !.variables[w] = <<>>]
          ELSE att' = [att EXCEPT
                         !.pc[w] = "poll",
                         !.variables[w] = ext.vars,
                         !.wspec[w].vars = SpecVarsAfter(att.wspec[w].vars, ext.vars),
                         !.log[att.cur[w]].reply = Some(resp.body)]
    /\ UNCHANGED notAttemptVars

\* the poll request is built from the working bindings; the attempt ends and
\* its bindings with it
AttemptPoll(w) ==
    /\ att.pc[w] = "poll"
    /\ att' = [att EXCEPT
                 !.pc[w] = "loop",
                 !.variables[w] = <<>>,
                 !.log[att.cur[w]].polled =
                     Some(build_raw_spec_from_step(att.wspec[w].steps[2], att.variables[w]))]
    /\ UNCHANGED notAttemptVars

NextAttempts ==
    \/ \E w \in AttemptWorkers : AttemptStart(w)
    \/ \E w \in AttemptWorkers : AttemptSchedule(w)
    \/ \E w \in AttemptWorkers : AttemptPoll(w)

SpecAttempts == InitAttempts /\ [][NextAttempts]_vars

\* Every thread that can take a step eventually takes it; nothing is assumed
\* about the monitor's sleep.
MainStep ==
    \/ BuildRequest \/ DriveCommand \/ ModeSelect \/ ExecuteOnce \/ SpawnWorker
    \/ DropTx \/ SpawnMonitor \/ Recv \/ RecvClosed \/ Join \/ Finish

WorkerStep(w) == WorkerCheck(w) \/ WorkerClaim(w) \/ WorkerExecute(w)

FairSpec ==
    /\ Init
    /\ [][Next]_vars
    /\ WF_vars(MainStep)
    /\ \A w \in Workers : WF_vars(WorkerStep(w))

\* ------------------------------------------------------------------- claims

Range(q) == {q[i] : i \in DOMAIN q}

StartedIdx == {started[i].idx : i \in DOMAIN started}

ReceivedIdx == {m.idx : m \in received}

\* execute_requests_loop went past its mode selection
PastModeSelect ==
    mpc \in {"single", "spawn", "monitor", "drain", "join"} \/ spawned > 0 \/ warned
        \/ (mpc = "done" /\ handler_calls = 0 /\ spec.kind # "CustomHandler")

\* a load run (thread pool) that has returned
LoadDone == mpc = "done" /\ spawned > 0

\* the configuration asks for count mode on a spec the harness repeats
CountModeConfig ==
    /\ cfg.duration_secs = 0
    /\ CountAboveOne(cfg)
    /\ spec.kind \in {"Simple", "Scenario"}

\* C1: count mode (count = N > 1, duration_secs = 0, any concurrency): at no
\* moment have more than N attempts been executed or aggregated, and when
\* execute_requests_loop has returned exactly N attempts were executed and
\* exactly N results aggregated (success_count + error_count = N).
C1_CountModeExactlyN ==
    CountModeConfig =>
        LET N == cfg.count[1] IN
        /\ Len(started) <= N
        /\ success_count + error_count <= N
        /\ mpc = "done" =>
             /\ Len(started) = N
             /\ success_count + error_count = N
             /\ Cardinality(received) = N

C1_Witness ==
    /\ CountModeConfig /\ mpc = "done"
    /\ cfg.count = Some(3) /\ concurrency = 2
    /\ executed_count = 4
    /\ success_count + error_count = 3

\* C2: the indices of the executed attempts strictly increase in claim order
\* (so no two attempts share an index and each worker's successive indices
\* increase), the results in the channel and at the aggregator carry pairwise
\* different indices, and after a count-mode run the executed indices are
\* exactly 1..N.
C2_IndicesUniqueIncreasing ==
    /\ \A i, j \in DOMAIN started : i < j => started[i].idx < started[j].idx
    /\ \A i, j \in DOMAIN chan : i # j => chan[i].idx # chan[j].idx
    /\ \A m \in Range(chan) : m.idx \notin ReceivedIdx
    /\ Cardinality(ReceivedIdx) = success_count + error_count
    /\ (CountModeConfig /\ mpc = "done") => StartedIdx = 1..cfg.count[1]

C2_Witness ==
    /\ CountModeConfig /\ mpc = "done"
    /\ concurrency = 2
    /\ StartedIdx = {1, 2, 3}
    /\ executed_count > 3

\* the attempts a worker is executing right now
InFlight == {request_index[w] : w \in {v \in Workers : wpc[v] = "exec"}}

\* C3: duration mode: every started attempt is in flight, in the channel or
\* aggregated (none is cancelled or lost when the stop flag is set), and when
\* execute_requests_loop returns every started attempt's result has been
\* received: the number of aggregated results equals the number of started
\* attempts.
C3_DurationStartedAllCounted ==
    use_duration =>
        /\ StartedIdx = InFlight \cup {m.idx : m \in Range(chan)} \cup ReceivedIdx
        /\ mpc = "done" =>
             /\ ReceivedIdx = StartedIdx
             /\ success_count + error_count = Len(started)
             /\ \A w \in 1..spawned : wpc[w] = "done"

C3_Witness ==
    /\ use_duration /\ LoadDone
    /\ Len(started) >= 2
    /\ \E i \in DOMAIN started : started[i].after_stop
    /\ success_count + error_count = Len(started)

\* C4 as claimed: no attempt is started (claimed) once the stop flag is set.
C4_NoStartAfterStop ==
    \A i \in DOMAIN started : ~started[i].after_stop

\* the attempts started while the stop flag was already set
AfterStop == {i \in DOMAIN started : started[i].after_stop}

\* C4 amended: duration mode: once the stop flag is set no worker passes its
\* stop check any more; a worker that had passed the check before the flag was
\* set still claims and executes that one attempt, so the attempts started
\* after the flag was set, together with the claims still pending, never
\* exceed the number of workers.
C4_StopCheckThenAtMostOneEach ==
    /\ [][\A w \in Workers :
            (should_stop /\ wpc[w] = "check") => wpc'[w] # "claim"]_vars
    /\ [](Cardinality(AfterStop) + Cardinality(Claiming) <= concurrency)

C4_Witness ==
    /\ use_duration /\ LoadDone
    /\ concurrency = 2
    /\ Cardinality(AfterStop) = 2

\* C5: a failing attempt (exit code # 0 or Err) is recorded with
\* is_success = false; the step that ends an attempt puts its worker back at
\* the stop check and leaves the other workers alone; a count-mode run still
\* executes all N attempts; and a load run returns Ok.
C5_FailureRecordedRunContinues ==
    /\ [](\A m \in Range(chan) \cup received : m.idx \in failed => ~m.is_success)
    /\ [](LoadDone => result \in {"Ok0", "Ok1"})
    /\ []((CountModeConfig /\ mpc = "done") => Len(started) = cfg.count[1])
    /\ [][\A w \in Workers :
            (wpc[w] = "exec" /\ wpc'[w] # "exec") =>
                /\ wpc'[w] = "check"
                /\ \A v \in Workers \ {w} : wpc'[v] = wpc[v]]_vars

C5_Witness ==
    /\ LoadDone /\ CountModeConfig
    /\ cfg.count = Some(3)
    /\ 1 \in failed /\ 2 \in failed
    /\ Len(started) = 3
    /\ error_count = 2 /\ success_count = 1

\* C6: the exit status of a load run is 1 exactly when an aggregated result
\* has is_success = false, and 0 otherwise.
C6_ExitStatus ==
    LoadDone =>
        /\ result = "Ok1" <=> (\E m \in received : ~m.is_success)
        /\ result = "Ok0" <=> (\A m \in received : m.is_success)

C6_Witness ==
    /\ LoadDone /\ result = "Ok1"
    /\ \E m \in received : ~m.is_success
    /\ \E m \in received : m.is_success

\* C7: with every running thread scheduled fairly, a count-mode run returns,
\* a duration-mode run returns once the stop flag is set, and the aggregator
\* never stays in its receive loop forever once either holds.
C7_HarnessTerminates ==
    ((mpc = "spawn" /\ ~use_duration) \/ should_stop)
        ~> (mpc = "done" /\ senders = 0 /\ \A w \in 1..spawned : wpc[w] = "done")

C7_Witness ==
    /\ LoadDone /\ should_stop /\ senders = 0
    /\ spawned = 2 /\ joined = 2
    /\ Len(started) = MaxAttempts

\* C8 as claimed: a CustomHandler spec asked to repeat or to run for a duration
\* has its handler run exactly once and a warning emitted.
C8_HandlerOnceWithWarning ==
    (/\ mpc = "done"
     /\ spec.kind = "CustomHandler"
     /\ registered
     /\ (CountAboveOne(cfg) \/ cfg.duration_secs > 0))
        => (handler_calls = 1 /\ warned)

\* C9 as claimed: any two distinct attempts of a load run use different uuid
\* bindings.
C9_FreshUuidPerAttempt ==
    \A i, j \in DOMAIN started : i # j => started[i].uuid # started[j].uuid

\* C10: with duration_secs > 0 the harness is in duration mode whatever count
\* is: no target count exists, a worker ends only with the stop flag set, and
\* no claimed index is discarded (the counter equals the number of executed
\* attempts, which count does not limit).
C10_DurationPrecedence ==
    (cfg.duration_secs > 0 /\ PastModeSelect) =>
        /\ use_duration
        /\ target_count = None
        /\ \A w \in Workers : wpc[w] = "done" => should_stop
        /\ executed_count = Len(started)
        /\ mpc = "done" /\ spawned > 0 => should_stop

C10_Witness ==
    /\ cfg.duration_secs > 0 /\ cfg.count = Some(2)
    /\ LoadDone
    /\ Len(started) = 3

\* the configuration asks for neither a duration nor more than one attempt
SingleShotConfig ==
    cfg.duration_secs = 0 /\ cfg.count \in {None, Some(0), Some(1)}

\* execute_requests_loop was entered with such a configuration and is past its
\* mode selection
InSingleShot ==
    /\ SingleShotConfig
    /\ \/ mpc \in {"single", "spawn", "monitor", "drain", "join"}
       \/ mpc = "done" /\ (spec.kind \in {"Simple", "Scenario"} \/ sync_log # <<>>)

\* C11: with duration_secs = 0 and count absent, 0 or 1, execute_requests_loop
\* runs the spec once on the calling thread, creates no worker, no monitor and
\* claims no index, and returns the result of that one execution as it is.
C11_SingleShotSynchronous ==
    InSingleShot =>
        /\ mpc \in {"single", "done"}
        /\ spawned = 0 /\ \A w \in Workers : wpc[w] = "unspawned"
        /\ timer = "none" /\ ~should_stop
        /\ executed_count = 0 /\ started = <<>> /\ chan = <<>> /\ received = {}
        /\ ~warned
        /\ mpc = "single" => sync_log = <<>>
        /\ mpc = "done" => sync_log = <<result>>

C11_Witness ==
    /\ InSingleShot /\ mpc = "done"
    /\ cfg.count = Some(1) /\ cfg.concurrency = 2
    /\ sync_log = <<"Ok1">> /\ result = "Ok1"

\* a thread pool exists or has existed for this run
PoolRun == mpc \in {"spawn", "monitor", "drain", "join"} \/ spawned > 0

IsErr(r) == r \notin {"none", "Ok0", "Ok1"}

\* the response is a 2xx with a JSON body
JsonReply(resp) == resp.kind = "ok" /\ resp.body.json

\* the declared positions of the conditions whose status is the reply's
Matching(resp) ==
    {j \in 1..Len(polling_config.completion_conditions) :
        StatusIs(resp.body, polling_config.completion_conditions[j].status)}

\* the earliest declared of them
Earliest(resp) == CHOOSE j \in Matching(resp) : \A k \in Matching(resp) : j <= k

\* the action the reply calls for, "none" when no condition has its status
CalledFor(resp) ==
    IF JsonReply(resp) /\ Matching(resp) # {}
    THEN polling_config.completion_conditions[Earliest(resp)].action
    ELSE "none"

FirstPollSucceeds == poll_log # <<>> /\ CalledFor(poll_log[1].resp) = "success"

\* C13: when the first poll response has the status of a condition whose
\* action is success (the earliest declared with that status), the scenario
\* has returned exit code 0 after exactly one poll request, without a sleep.
C13_FirstPollSuccessExitsZero ==
    FirstPollSucceeds =>
        /\ spc = "done" /\ sres = "Ok0"
        /\ Len(poll_log) = 1 /\ PollsIssued = 1
        /\ sleeps = 0

C13_Witness ==
    /\ FirstPollSucceeds /\ sres = "Ok0" /\ Len(poll_log) = 1
    /\ Len(polling_config.completion_conditions) = 2

InPollLoop == spc \in {"poll_head", "poll_wait", "sleep"}

\* the polling loop was entered
PollingStarted ==
    InPollLoop \/ (spc = "done" /\ (poll_log # <<>> \/ sres = "Err:timeout"))

\* every poll response so far was a JSON reply that no condition matched
NeverMatched ==
    \A i \in 1..Len(poll_log) :
        JsonReply(poll_log[i].resp) /\ Matching(poll_log[i].resp) = {}

\* C14: a scenario in its polling loop always leaves it; while no poll
\* response has matched a condition it reports no exit code, and when it has
\* ended it ended with the timeout error, the elapsed time above
\* timeout_seconds.
C14_TimeoutEndsUnmatchedPolling ==
    /\ [](PollingStarted /\ NeverMatched =>
            /\ sres \notin {"Ok0", "Ok1"}
            /\ spc = "done" =>
                 /\ sres = "Err:timeout"
                 /\ elapsed > polling_config.timeout_seconds)
    /\ (InPollLoop ~> spc = "done")

C14_Witness ==
    /\ spc = "done" /\ sres = "Err:timeout"
    /\ Len(poll_log) = 2 /\ NeverMatched /\ sleeps = 2

\* the schedule response is a JSON reply in which some extraction rule of the
\* schedule step selects nothing
UnresolvedRule ==
    /\ sched_log # <<>>
    /\ JsonReply(sched_log[1].resp)
    /\ \E v \in DOMAIN scn.steps[1].extract_response :
          FieldOfPath[scn.steps[1].extract_response[v]]
              \notin DOMAIN sched_log[1].resp.body.obj

\* C15: an extraction rule that selects nothing in the schedule response ends
\* the scenario with the extraction error and no poll request is ever sent.
C15_UnresolvedRuleAborts ==
    UnresolvedRule =>
        /\ spc = "done" /\ sres = "Err:extract"
        /\ PollsIssued = 0

C15_Witness ==
    /\ UnresolvedRule /\ spc = "done"
    /\ DOMAIN scn.steps[1].extract_response = {S_id, S_uuid}
    /\ "id" \in DOMAIN sched_log[1].resp.body.obj

\* C16: a poll response whose status some conditions carry is decided by the
\* earliest declared of them: success gives exit code 0, error exit code 1,
\* any other action an error; it is the last poll.
C16_EarliestConditionWins ==
    \A i \in 1..Len(poll_log) :
        CalledFor(poll_log[i].resp) # "none" =>
            /\ i = Len(poll_log) /\ spc = "done"
            /\ CalledFor(poll_log[i].resp) = "success" => sres = "Ok0"
            /\ CalledFor(poll_log[i].resp) = "error" => sres = "Ok1"
            /\ CalledFor(poll_log[i].resp) \notin {"success", "error"} =>
                   sres = "Err:action"

C16_Witness ==
    /\ poll_log # <<>>
    /\ JsonReply(poll_log[Len(poll_log)].resp)
    /\ Matching(poll_log[Len(poll_log)].resp) = {1, 2}
    /\ polling_config.completion_conditions[1].action = "error"
    /\ polling_config.completion_conditions[2].action = "success"
    /\ sres = "Ok1"

\* the scenario is not of the required shape
ShapeViolated ==
    \/ scn.scenario_type # "job_with_polling"
    \/ Len(scn.steps) # 2
    \/ scn.steps[1].name # "schedule_job"
    \/ scn.steps[2].name # "poll_job"

\* C17: a scenario that is not of the required shape returns no exit code,
\* never enters the polling loop, and when it has ended it ended in an error.
C17_ShapeViolationIsError ==
    ShapeViolated =>
        /\ sres \notin {"Ok0", "Ok1"}
        /\ spc \in {"start", "schedule", "done"}
        /\ PollsIssued = 0
        /\ spc = "done" => IsErr(sres)

C17_Witness ==
    /\ Len(scn.steps) = 3 /\ scn.scenario_type = "job_with_polling"
    /\ scn.steps[1].name = "schedule_job" /\ scn.steps[2].name = "poll_job"
    /\ spc = "done" /\ sres = "Err:steps"

\* the request came back without a 2xx status
RequestFailed(resp) == resp.kind \in {"transport", "non2xx"}

\* C18: at most one schedule request is sent; a failed schedule request ends
\* the scenario in an error with no poll request; a failed poll request or a
\* poll response that is no JSON ends the scenario in an error and is the
\* last request.
C18_NoRetry ==
    /\ SchedulesIssued <= 1
    /\ (sched_log # <<>> /\ RequestFailed(sched_log[1].resp)) =>
           /\ spc = "done" /\ sres = "Err:request"
           /\ PollsIssued = 0
    /\ \A i \in 1..Len(poll_log) :
           (RequestFailed(poll_log[i].resp) \/ ~JsonReply(poll_log[i].resp)) =>
               /\ i = Len(poll_log) /\ PollsIssued = i
               /\ spc = "done" /\ IsErr(sres)

C18_Witness ==
    /\ Len(poll_log) = 2 /\ poll_log[2].resp.kind = "non2xx"
    /\ spc = "done" /\ sres = "Err:request"

\* the schedule request succeeded with a body that is no JSON
NonJsonSchedule ==
    /\ sched_log # <<>>
    /\ sched_log[1].resp.kind = "ok"
    /\ ~sched_log[1].resp.body.json

\* C19 as stated: a schedule response body that is no JSON ends the scenario
\* in an error before any poll request, whatever the extraction rules.
C19_NonJsonScheduleAborts ==
    NonJsonSchedule => (spc = "done" /\ IsErr(sres) /\ PollsIssued = 0)

\* C19: when the schedule step declares at least one extraction rule, a
\* schedule response body that is no JSON ends the scenario with the
\* extraction error before any poll request.
C19_NonJsonAbortsWhenRulesDeclared ==
    (NonJsonSchedule /\ DOMAIN scn.steps[1].extract_response # {}) =>
        (spc = "done" /\ sres = "Err:extract" /\ PollsIssued = 0)

C19_Witness ==
    /\ NonJsonSchedule /\ DOMAIN scn.steps[1].extract_response = {S_id}
    /\ spc = "done" /\ sres = "Err:extract"

\* the poll endpoint with the id extracted from the schedule response
ExpectedPollEndpoint ==
    <<"/", "j", "/">> \o
        (IF S_id \in DOMAIN scn.steps[1].extract_response
         THEN JsonToString(sched_log[1].resp.body.obj["id"])
         ELSE <<>>)

\* the poll responses were status running, then status done, done calling for
\* success
RunningThenDone ==
    /\ Len(poll_log) = 2
    /\ JsonReply(poll_log[1].resp) /\ StatusIs(poll_log[1].resp.body, S_running)
    /\ JsonReply(poll_log[2].resp) /\ StatusIs(poll_log[2].resp.body, S_done)
    /\ CalledFor(poll_log[2].resp) = "success"

\* C20: every poll request carries the id extracted from the schedule
\* response in its endpoint; every poll but the first follows one sleep; the
\* responses running, done with success on done give exactly two polls, one
\* sleep and exit code 0.
C20_PollsRebuiltFromBindings ==
    /\ \A i \in 1..Len(poll_log) : poll_log[i].endpoint = ExpectedPollEndpoint
    /\ spc \in {"poll_wait", "sleep"} => sleeps = PollsIssued - 1
    /\ spc = "poll_head" => sleeps = PollsIssued
    /\ RunningThenDone =>
           /\ spc = "done" /\ sres = "Ok0"
           /\ PollsIssued = 2 /\ sleeps = 1

C20_Witness ==
    /\ RunningThenDone /\ sres = "Ok0" /\ sleeps = 1
    /\ poll_log[1].endpoint = <<"/", "j", "/", "4", "2">>
    /\ poll_log[2].endpoint = <<"/", "j", "/", "4", "2">>

\* the last poll response received
LastPoll == poll_log[Len(poll_log)].resp

\* the return value an action stands for
TerminalFor(action) ==
    IF action = "success" THEN "Ok0"
    ELSE IF action = "error" THEN "Ok1"
    ELSE "Err:action"

\* C21: a poll response that some condition matches is the last request of
\* the run and ends it by the action of the first such condition: success
\* returns exit code 0, error exit code 1, anything else a configuration
\* error; and the run returns one of these three only in that way.
C21_ActionDecidesTermination ==
    /\ \A i \in 1..Len(poll_log) :
          CalledFor(poll_log[i].resp) # "none" =>
              /\ PollsIssued = i
              /\ spc = "done"
              /\ sres = TerminalFor(CalledFor(poll_log[i].resp))
    /\ sres \in {"Ok0", "Ok1", "Err:action"} =>
          /\ poll_log # <<>>
          /\ CalledFor(LastPoll) # "none"
          /\ sres = TerminalFor(CalledFor(LastPoll))

C21_Witness ==
    /\ Len(poll_log) = 2
    /\ CalledFor(LastPoll) = "retry"
    /\ sres = "Err:action" /\ spc = "done"

\* the run has ended on a condition with action error
EndedOnError == spc = "done" /\ poll_log # <<>> /\ CalledFor(LastPoll) = "error"

\* the condition that ended the run
DecidingCondition == polling_config.completion_conditions[Earliest(LastPoll)]

\* the member error_field selects in the last response, if there is one
FromErrorField ==
    LET c == DecidingCondition IN
    IF c.error_field # None
       /\ FieldOfPath[c.error_field[1]] \in DOMAIN LastPoll.body.obj
    THEN Some(JsonToString(LastPoll.body.obj[FieldOfPath[c.error_field[1]]]))
    ELSE None

\* C22: when the run ends on an error condition and prints its message, the
\* message is the value error_field selects in the response if there is one,
\* else the configured error_message if there is one, else a generic text.
C22_ErrorMessagePriority ==
    (EndedOnError /\ stderr # <<>>) =>
        LET c == DecidingCondition IN
        \E msg \in (IF FromErrorField # None THEN {FromErrorField[1]}
                    ELSE IF c.error_message # None THEN {c.error_message[1]}
                    ELSE {<<"Operation failed">>, <<"Unknown error">>}) :
            stderr = <<PrintedText(<<"Error: ">> \o msg)>>

\* the run has ended on a condition with action success
EndedOnSuccess == spc = "done" /\ poll_log # <<>> /\ CalledFor(LastPoll) = "success"

SchedulingSucceeded ==
    /\ Len(sched_log) = 1
    /\ sched_log[1].resp.kind = "ok"
    /\ \/ DOMAIN scn.steps[1].extract_response = {}
       \/ /\ sched_log[1].resp.body.json
          /\ \A v \in DOMAIN scn.steps[1].extract_response :
                FieldOfPath[scn.steps[1].extract_response[v]]
                    \in DOMAIN sched_log[1].resp.body.obj

\* the moves of a run: Scheduling, Polling, ended
Moves ==
    {<<"start", "schedule">>, <<"start", "done">>,
     <<"schedule", "poll_head">>, <<"schedule", "done">>,
     <<"poll_head", "poll_wait">>, <<"poll_head", "done">>,
     <<"poll_wait", "sleep">>, <<"poll_wait", "done">>,
     <<"sleep", "poll_head">>}

\* C24: at most one schedule request is sent, and exactly one in a run that
\* polls or ends as Succeeded, Failed or TimedOut; it is sent before any poll;
\* a poll is sent only after scheduling and extraction succeeded; the run
\* moves only forward through Scheduling and Polling, and once it has ended
\* no request is sent and nothing changes.
C24_SchedulingThenPolling ==
    /\ [](/\ SchedulesIssued <= 1
          /\ (PollsIssued > 0 \/ sres \in {"Ok0", "Ok1", "Err:timeout"}) =>
                 SchedulingSucceeded)
    /\ [][/\ spc' # spc => <<spc, spc'>> \in Moves
          /\ spc' = "schedule" => (spc \in {"start", "schedule"} /\ poll_log = <<>>)
          /\ Len(sched_log') > Len(sched_log) => (poll_log = <<>> /\ PollsIssued = 0)
          /\ spc = "done" =>
                 UNCHANGED <<spc, sres, sched_log, poll_log, sleeps, stdout, stderr>>]_vars

C24_Witness ==
    /\ spc = "done" /\ sres = "Ok1"
    /\ Len(sched_log) = 1 /\ Len(poll_log) = 2 /\ sleeps = 1

\* ------------------------------------------------ Simple request claims

\* the Simple request was sent and its call has returned
SimpleAnswered == rpc = "done" /\ rlog # <<>>

\* C25: a Simple request that got a response returns the exit code as a
\* value, 0 for a 2xx status and 1 for any other, and in both cases the body
\* received goes through the same output step (one printed item carrying the
\* body, nothing in Quiet mode); a request that failed in transport returns
\* an error, with no exit code and nothing printed.
C25_StatusIsValueTransportIsError ==
    SimpleAnswered =>
        LET r == rlog[1].resp IN
        /\ Len(rlog) = 1
        /\ r.kind = "transport" => (rres = "Err:send" /\ rout = <<>>)
        /\ r.kind = "http" =>
              /\ r.status \in 200..299 => rres = "Ok0"
              /\ r.status \notin 200..299 => rres = "Ok1"
              /\ call.output = "Quiet" => rout = <<>>
              /\ call.output # "Quiet" =>
                    /\ Len(rout) = 1
                    /\ rout[1].body = (IF r.readable THEN r.body ELSE RawText(<<>>))

C25_Witness ==
    /\ SimpleAnswered
    /\ rlog[1].resp.kind = "http" /\ rlog[1].resp.status = 404
    /\ call.output = "Json"
    /\ rres = "Ok1"
    /\ rout = <<Printed("wrapped", 404, RawText(S_oops))>>

\* ----------------------------------------------------- handler claims

\* the members of a sequence
Members(q) == {q[i] : i \in 1..Len(q)}

\* the nodes below a set of groups
Below(groups) == UNION {Members(g.subcommands) : g \in groups}

GroupsIn(nodes) == {n \in nodes : n.kind = "group"}

\* every command of the mapping, at any depth
AllCommands ==
    IF hcfg.root.kind = "flat" THEN Members(hcfg.root.commands)
    ELSE LET l1 == Below(Members(hcfg.root.commands))
             l2 == Below(GroupsIn(l1))
             l3 == Below(GroupsIn(l2))
         IN {n \in l1 \cup l2 \cup l3 : n.kind = "command"}

\* every handler name the mapping mentions
AllNamed == {c.custom_handler[1] : c \in {n \in AllCommands : n.custom_handler # None}}

\* the invoked command names a handler that is not registered
UnregisteredInvoked ==
    hcfg.handler_name # None /\ hcfg.handler_name[1] \notin hcfg.registry

\* C26: a command whose handler is not registered never has a handler
\* invoked nor a request executed, and drive_command returns an error for it;
\* validate_handlers returns Ok exactly when every handler named in the
\* mapping, at any depth, is registered, and otherwise reports exactly the
\* unregistered names.
C26_UnregisteredHandlerIsFatal ==
    /\ UnregisteredInvoked =>
          /\ handler_calls = 0 /\ sync_log = <<>> /\ started = <<>>
          /\ mpc \in {"build", "drive", "loop", "done"}
          /\ mpc = "done" => result = "Err"
    /\ hpc = "done" =>
          /\ hres.ok <=> AllNamed \subseteq hcfg.registry
          /\ Members(hres.missing) = AllNamed \ hcfg.registry

C26_Witness ==
    /\ UnregisteredInvoked /\ mpc = "done" /\ result = "Err"
    /\ hpc = "done" /\ ~hres.ok
    /\ hcfg.root.kind = "hier"
    /\ hcfg.registry = {"h1"}
    /\ hres.missing = <<"h2">>
    /\ \A n \in Below(Members(hcfg.root.commands)) :
          n.kind = "group" \/ n.custom_handler # Some("h2")

\* ---------------------------------------------------------------------------
\* The assembler
\* ---------------------------------------------------------------------------

AsmDone == bpc = "done"

\* the caller's bindings with uuid set to the generated value
CallerPlusUuid ==
    [k \in DOMAIN asm.vars \cup {S_uuid} |->
        IF k = S_uuid THEN asm.fresh ELSE asm.vars[k]]

NoHttpContent ==
    DOMAIN built \cap {"method", "endpoint", "headers", "body", "multipart", "file_fields"} = {}

KindByPriority ==
    IF asm.cmd.custom_handler # None THEN "CustomHandler"
    ELSE IF asm.cmd.scenario # None THEN "Scenario"
    ELSE "Simple"

\* C27, as stated: the variant is CustomHandler if the command names a custom
\* handler, else Scenario if it carries a scenario, else Simple, and a
\* CustomHandler or Scenario result holds exactly the caller's bindings plus
\* uuid and no HTTP field.
C27_VariantWithCallerBindings ==
    AsmDone =>
        /\ built.kind = KindByPriority
        /\ built.kind \in {"CustomHandler", "Scenario"} =>
              /\ built.vars = CallerPlusUuid
              /\ NoHttpContent

\* the file arguments that replace variable k: type file, naming k, bound to a
\* non-empty path that can be read
ReplacingFiles(k) ==
    {i \in 1..Len(asm.cmd.args) :
        /\ asm.cmd.args[i].arg_type = Some("file")
        /\ asm.cmd.args[i].file_overrides_value_of = Some(k)
        /\ asm.cmd.args[i].name # None
        /\ asm.cmd.args[i].name[1] \in DOMAIN CallerPlusUuid
        /\ CallerPlusUuid[asm.cmd.args[i].name[1]] # <<>>
        /\ CallerPlusUuid[asm.cmd.args[i].name[1]] \in DOMAIN asm.files}

LastOf(S) == CHOOSE i \in S : \A j \in S : j <= i

FileTargets ==
    {asm.cmd.args[i].file_overrides_value_of[1] :
        i \in {j \in 1..Len(asm.cmd.args) :
                  asm.cmd.args[j].file_overrides_value_of # None}}

\* the caller's bindings plus uuid, a variable that a readable file argument
\* replaces holding the content of the file
BindingsAfterFiles ==
    [k \in DOMAIN CallerPlusUuid \cup {t \in FileTargets : ReplacingFiles(t) # {}} |->
        IF ReplacingFiles(k) # {}
        THEN asm.files[CallerPlusUuid[asm.cmd.args[LastOf(ReplacingFiles(k))].name[1]]]
        ELSE CallerPlusUuid[k]]

LacksMethodOrEndpoint == asm.cmd.method = None \/ asm.cmd.endpoint = None

\* C27, amended: the outcome follows the fixed priority CustomHandler, then
\* Scenario, then Simple, the last only for a command with method and endpoint
\* (the call panics otherwise); a CustomHandler or Scenario result holds the
\* caller's bindings plus uuid with every variable that a readable file
\* argument overrides replaced by the file's content, and no HTTP field.
C27_VariantByPriority ==
    AsmDone =>
        /\ built.kind = IF KindByPriority = "Simple" /\ LacksMethodOrEndpoint
                        THEN "panic" ELSE KindByPriority
        /\ built.kind \in {"CustomHandler", "Scenario"} =>
              /\ built.vars = BindingsAfterFiles
              /\ NoHttpContent

\* a command with custom handler, scenario, method and endpoint yields
\* CustomHandler, with id replaced by the content of the file
C27_Witness ==
    /\ AsmDone
    /\ built.kind = "CustomHandler"
    /\ asm.cmd.scenario # None
    /\ asm.cmd.method # None /\ asm.cmd.endpoint # None
    /\ asm.vars[S_id] = <<"1">>
    /\ built.vars[S_id] = <<"9">>

\* C28: build_request_from_command returns a RequestSpec for every command,
\* bindings and selected set, also for a command without method or endpoint
\* and for a file argument whose file cannot be read; it never aborts.
C28_AssemblerNeverFails ==
    AsmDone => built.kind \in {"CustomHandler", "Scenario", "Simple"}

\* the selected arguments that set field f, by position
SelectedSetting(f) ==
    {i \in 1..Len(asm.cmd.args) :
        /\ asm.cmd.args[i].name # None
        /\ asm.cmd.args[i].name[1] \in asm.selected
        /\ asm.cmd.args[i][f] # None}

SelectedSettingHeader(k) ==
    {i \in SelectedSetting("headers") : k \in DOMAIN asm.cmd.args[i].headers[1]}

HeaderKeys ==
    DOMAIN asm.cmd.headers
        \cup UNION {DOMAIN asm.cmd.args[i].headers[1] : i \in SelectedSetting("headers")}

In(t) == substitute_template(t, BindingsAfterFiles)

IsPlaceholder(t, i, e) ==
    /\ i + 2 <= e /\ e <= Len(t)
    /\ t[i] = "{" /\ t[e] = "}"
    /\ IsIdentStart(t[i + 1])
    /\ \A j \in (i + 2)..(e - 1) : IsIdentChar(t[j])

Opens(t, i) == \E e \in 1..Len(t) : IsPlaceholder(t, i, e)

Within(t, p) ==
    \E i \in 1..Len(t), e \in 1..Len(t) : IsPlaceholder(t, i, e) /\ i < p /\ p <= e

\* what position p of the template contributes to the result: the bound value
\* (nothing when unbound) where a placeholder opens, nothing inside a
\* placeholder, the character itself anywhere else
Piece(t, b, p) ==
    IF Opens(t, p)
    THEN LET e   == CHOOSE x \in 1..Len(t) : IsPlaceholder(t, p, x)
             key == SubSeq(t, p + 1, e - 1)
         IN IF key \in DOMAIN b THEN b[key] ELSE <<>>
    ELSE IF Within(t, p) THEN <<>>
    ELSE <<t[p]>>

RECURSIVE Pieces(_, _, _)
Pieces(t, b, p) == IF p > Len(t) THEN <<>> ELSE Piece(t, b, p) \o Pieces(t, b, p + 1)

\* C30: substitute_template returns the template with every {identifier}
\* replaced by the bound value, or by nothing when unbound, in one pass: an
\* inserted value is not expanded again and every character outside a
\* well-formed placeholder is kept as it is; every call returns a string.
C30_SinglePassSubstitution ==
    tout # <<>> => tout[1] = Pieces(tmpl.template, tmpl.bindings, 1)

\* "{1}{a}" with a bound to "{a}" gives "{1}{a}": the malformed {1} is kept
\* and the inserted {a} is not expanded
C30_Witness ==
    /\ tout # <<>>
    /\ tmpl.template = <<"{", "1", "}", "{", "a", "}">>
    /\ <<"a">> \in DOMAIN tmpl.bindings
    /\ tmpl.bindings[<<"a">>] = <<"{", "a", "}">>
    /\ tout[1] = <<"{", "1", "}", "{", "a", "}">>

\* ---------------------------------------------------------------------------
\* Configuration errors of a Simple request
\* ---------------------------------------------------------------------------

IsAbsolute(endpoint) == StartsWith(endpoint, str_http) \/ StartsWith(endpoint, str_https)

RelativeWithoutBase == ~IsAbsolute(call.spec.endpoint) /\ call.spec.base_url = None

\* the method is none of the seven, whatever the case of its letters
MethodUnsupported == ToUppercase(call.spec.method) \notin SupportedMethods

HeaderWithoutColon ==
    \E i \in 1..Len(call.spec.headers) :
        \A j \in 1..Len(call.spec.headers[i]) : call.spec.headers[i][j] # ":"

UnreadableMultipartFile ==
    /\ call.spec.multipart
    /\ \E f \in DOMAIN call.spec.file_fields : call.spec.file_fields[f] \notin call.readable

ConfigurationError ==
    \/ RelativeWithoutBase
    \/ MethodUnsupported
    \/ HeaderWithoutColon
    \/ UnreadableMultipartFile

\* C31: a Simple request with a relative endpoint and no base URL, a method
\* that is none of GET/POST/PUT/PATCH/DELETE/HEAD/OPTIONS in any case of
\* letters, a header without ':' or an unreadable multipart file ends in an
\* error with no request sent; a method is refused only if it is none of the
\* seven when compared without regard to case.
C31_ConfigErrorsBeforeNetwork ==
    rpc = "done" =>
        /\ ConfigurationError =>
              /\ rres \in {"Err:client", "Err:url", "Err:method", "Err:headers", "Err:file"}
              /\ rlog = <<>>
        /\ rres = "Err:method" => MethodUnsupported

\* the only fault is the method FETCH: the call fails on it and sends nothing
C31_Witness ==
    /\ rpc = "done"
    /\ call.spec.method = <<"F", "E", "T", "C", "H">>
    /\ ~RelativeWithoutBase /\ ~HeaderWithoutColon /\ ~UnreadableMultipartFile
    /\ rres = "Err:method"
    /\ rlog = <<>>

\* ---------------------------------------------------------------------------
\* The URL of a Simple request
\* ---------------------------------------------------------------------------

WithoutTrailingSlash(s) ==
    IF s # <<>> /\ s[Len(s)] = "/" THEN SubSeq(s, 1, Len(s) - 1) ELSE s

WithoutLeadingSlash(s) ==
    IF s # <<>> /\ s[1] = "/" THEN SubSeq(s, 2, Len(s)) ELSE s

\* base and endpoint with exactly one '/' between them
JoinedByOneSlash(base, endpoint) ==
    WithoutTrailingSlash(base) \o <<"/">> \o WithoutLeadingSlash(endpoint)

\* C33: the URL of a request that was sent is the endpoint itself when the
\* endpoint starts with http:// or https://, with or without a base URL, and
\* otherwise the base and the endpoint joined by exactly one '/', whether or
\* not the base ends with '/' and whether or not the endpoint starts with '/'.
C33_UrlJoinedByOneSlash ==
    rlog # <<>> =>
        rlog[1].url =
            IF IsAbsolute(call.spec.endpoint) THEN call.spec.endpoint
            ELSE JoinedByOneSlash(call.spec.base_url[1], call.spec.endpoint)

\* ---------------------------------------------------------------------------
\* The shared state of a load run
\* ---------------------------------------------------------------------------

\* C32: when a load run returns, the total of executed attempts that its
\* summary reports is the number of results it aggregated, success count plus
\* error count, in count mode and in duration mode.
C32_TotalIsAggregated ==
    LoadDone => final_executed_count = success_count + error_count

\* a worker's fetch_add: the step from its claim to whatever follows
ClaimStepOf(w) == wpc[w] = "claim" /\ wpc'[w] # "claim"

\* the counter moves only by a claim, and by exactly one
CounterStep ==
    /\ executed_count' >= executed_count
    /\ executed_count' # executed_count =>
          /\ executed_count' = executed_count + 1
          /\ \E w \in Workers : ClaimStepOf(w)
    /\ (\E w \in Workers : ClaimStepOf(w)) => executed_count' = executed_count + 1

\* the flag moves only from false to true and only by the timer, which then
\* is done for good
FlagStep ==
    /\ should_stop' # should_stop =>
          /\ ~should_stop /\ should_stop'
          /\ timer = "sleeping" /\ timer' = "done"
    /\ timer = "done" => timer' = "done"

\* C34: the attempt counter is 0 until the pool runs, never decreases and
\* grows by exactly 1 with each claim and by nothing else; the stop flag is
\* false at first, is changed only by the timer, once, from false to true;
\* without a duration there is no timer and the flag stays false.
C34_SharedStateInvariants ==
    /\ [](/\ mpc \in {"build", "drive", "loop", "single"} =>
                executed_count = 0 /\ ~should_stop
          /\ cfg.duration_secs = 0 => timer = "none" /\ ~should_stop)
    /\ [][CounterStep /\ FlagStep]_vars

\* a duration run in which the timer has set the flag after two claims
C34_Witness ==
    /\ cfg.duration_secs > 0
    /\ should_stop /\ timer = "done"
    /\ executed_count = 2
    /\ Len(started) = 2

\* let concurrency = if concurrency == 0 { 1 } else { concurrency }, from the
\* configuration
PoolSize == IF cfg.concurrency = 0 THEN 1 ELSE cfg.concurrency

\* attempts handed to execute_worker_request that have not returned yet
Running == Len(started) - Len(chan) - Cardinality(received)

\* C35: a load run has a pool of exactly `concurrency` workers, 1 for a
\* configured 0: never more, and exactly that many once spawning is over; a
\* timer exists only in duration mode, and always once a duration run drains
\* its channel; at no moment are more attempts in flight than there are
\* workers.
C35_FixedPoolBoundsInFlight ==
    PoolRun =>
        /\ spawned <= PoolSize
        /\ mpc # "spawn" => spawned = PoolSize
        /\ \A w \in Workers : w > spawned => wpc[w] = "unspawned"
        /\ timer # "none" => cfg.duration_secs > 0
        /\ (cfg.duration_secs > 0 /\ mpc \in {"drain", "join", "done"}) => timer # "none"
        /\ Running <= PoolSize
        /\ Running = Cardinality({w \in Workers : wpc[w] = "exec"})

\* two workers, both with an attempt in flight
C35_Witness ==
    /\ PoolRun
    /\ cfg.concurrency = 2
    /\ spawned = 2
    /\ Running = 2

\* C36: count mode with target N and C workers: the counter never exceeds
\* N + C, every index beyond N is discarded without an attempt, at most one
\* per worker, and when the run returns the counter is at least N.
C36_CounterBetweenNAndNPlusC ==
    (PoolRun /\ CountModeConfig) =>
        /\ executed_count <= cfg.count[1] + PoolSize
        /\ \A i \in DOMAIN started : started[i].idx <= cfg.count[1]
        /\ executed_count - Len(started) <= spawned
        /\ LoadDone => executed_count >= cfg.count[1]

\* a finished run of two workers whose counter ended above the target
C36_Witness ==
    /\ LoadDone /\ CountModeConfig
    /\ cfg.count[1] = 2 /\ cfg.concurrency = 2
    /\ executed_count = 3
    /\ Len(started) = 2

\* ---------------------------------------------------------------------------
\* Order of checks, requests and the deadline in a scenario
\* ---------------------------------------------------------------------------

\* the job_with_polling scenario lacks what the interpreter requires of it
Misconfigured ==
    \/ Len(scn.steps) # 2
    \/ scn.steps[1].name # "schedule_job"
    \/ scn.steps[2].name # "poll_job"
    \/ scn.steps[2].polling = None

\* C38: a job_with_polling scenario with a wrong step count, a wrong name of
\* either step or no polling policy on the poll step sends no request at
\* all.
C38_ValidatedBeforeNetwork ==
    (scn.scenario_type = "job_with_polling" /\ Misconfigured) =>
        /\ SchedulesIssued = 0
        /\ PollsIssued = 0

\* the reply carries no status that is a JSON string
NoStringStatus(body) ==
    "status" \notin DOMAIN body.obj \/ body.obj["status"].t # "str"

Statusless(i) ==
    JsonReply(poll_log[i].resp) /\ NoStringStatus(poll_log[i].resp.body)

\* C39: a poll response that is JSON without a status, or with a status that
\* is no string, ends nothing: while it is the latest response the scenario
\* has no exit code and can only have ended by the timeout, and a sleep
\* follows it before anything else.
C39_StatuslessReplyPollsAgain ==
    \A i \in 1..Len(poll_log) :
        Statusless(i) =>
            /\ sleeps >= i \/ (i = Len(poll_log) /\ spc = "sleep" /\ sleeps = i - 1)
            /\ i = Len(poll_log) =>
                  /\ sres \in {"none", "Err:timeout"}
                  /\ spc \in {"sleep", "poll_head", "poll_wait", "done"}
                  /\ spc = "done" <=> sres = "Err:timeout"

\* a reply with a numeric status was followed by a sleep and a second poll,
\* whose reply ended the scenario with success
C39_Witness ==
    /\ Len(poll_log) = 2
    /\ poll_log[1].resp = Ok2xx(JObj([f \in {"status"} |-> JNum(1)]))
    /\ sleeps = 1
    /\ spc = "done" /\ sres = "Ok0"

\* the steps of the polling loop with regard to the deadline
DeadlineStep ==
    /\ (spc = "poll_head" /\ spc' = "poll_wait") =>
          elapsed <= polling_config.timeout_seconds
    /\ (spc = "poll_head" /\ spc' = "done") =>
          /\ elapsed > polling_config.timeout_seconds
          /\ sres' = "Err:timeout"
    /\ (sres' = "Err:timeout" /\ sres # "Err:timeout") => spc = "poll_head"
    /\ (spc = "poll_wait" /\ spc' # "poll_wait") =>
          /\ Len(poll_log') = Len(poll_log) + 1
          /\ LET r == poll_log'[Len(poll_log')].resp IN
             IF JsonReply(r) /\ Matching(r) # {}
             THEN sres' = TerminalFor(polling_config.completion_conditions[Earliest(r)].action)
             ELSE sres' # "Err:timeout"

\* C40: the deadline is looked at only at the head of a poll iteration: a
\* poll is started exactly when the elapsed time is not above
\* timeout_seconds, the timeout error arises only there and only with the
\* elapsed time strictly above it, and the response to a poll that was
\* started is evaluated whatever the elapsed time has become.
C40_DeadlineOnlyAtHead == [][DeadlineStep]_vars

\* the deadline passed while the poll was in flight and its response still
\* ended the scenario with success
C40_Witness ==
    /\ spc = "done" /\ sres = "Ok0"
    /\ poll_log # <<>>
    /\ elapsed > polling_config.timeout_seconds

\* ---------------------------------------------------------------------------
\* Bindings of repeated scenario attempts
\* ---------------------------------------------------------------------------

\* the poll endpoint for the job id of a schedule response
PollEndpointFor(body) == <<"/", "j", "/">> \o extract_jsonpath_value(body, "$.id")[1]

\* C37: every scenario attempt of a load run starts from the bindings the
\* ScenarioSpec was given to the run with, its poll request carries the job id
\* of its own schedule response whatever other attempts, earlier ones or ones
\* running on another worker, have extracted, and the spec handed to the run
\* and the workers' copies of it stay as they were given.
C37_BindingsIsolatedPerAttempt ==
    att # <<>> =>
        /\ att.spec = att.given
        /\ \A w \in AttemptWorkers : att.wspec[w] = att.given
        /\ \A i \in 1..Len(att.log) :
              /\ att.log[i].initial = att.given.vars
              /\ att.log[i].polled # None =>
                    att.log[i].polled[1] = PollEndpointFor(att.log[i].reply[1])

\* the caller bound id to 0; worker 1 ran an attempt that extracted 42 and
\* then a second one, which started from 0 again and polled for its own 7,
\* while worker 2 polled for 42
C37_Witness ==
    /\ att # <<>>
    /\ S_id \in DOMAIN att.given.vars
    /\ Len(att.log) = 3
    /\ att.log[1].worker = 1 /\ att.log[1].polled = Some(<<"/", "j", "/", "4", "2">>)
    /\ att.log[2].worker = 2 /\ att.log[2].polled = Some(<<"/", "j", "/", "4", "2">>)
    /\ att.log[3].worker = 1 /\ att.log[3].polled = Some(<<"/", "j", "/", "7">>)
    /\ att.log[3].initial[S_id] = <<"0">>

====
